---- MODULE Spec2Model ----
(***************************************************************************)
(* Model of the papy font converters:                                      *)
(*   scripts/fontconvert.py          (merge, validate, render, write)      *)
(*   scripts/convert_theme_fonts.py  (validate, render, write .epdfont)    *)
(*   lib/EpdFont/scripts/fontconvert.py (inline merge/validate, 1-bit)     *)
(*                                                                         *)
(* The specifications share the variables:                                 *)
(*   SpecIntervals : merge_intervals applied to bounded interval lists     *)
(*   SpecEnc       : the bit-depth encoders applied to bounded bitmaps     *)
(*   Spec          : one conversion run of each converter                  *)
(*   SpecBatch     : main of the two batch converters over a list of fonts *)
(*   SpecCall      : single calls of load_glyph, norm_floor, norm_ceil and *)
(*                   set_variable_font_weight                              *)
(*   SpecRuns      : two runs of scripts/fontconvert.py on the same input  *)
(***************************************************************************)
EXTENDS Integers, Sequences, FiniteSets, TLC

VARIABLES
    mIn, mOut, mOp,
    bitmap, packed, encOp,
    prog, font_stack, intervals, is_2bit, pc, data, out,
    batch, outcomes, success_count, total_count, exit_status,
    call

ivars == <<mIn, mOut, mOp>>
evars == <<bitmap, packed, encOp>>
pvars == <<prog, font_stack, intervals, is_2bit, pc, data, out>>
bvars == <<batch, outcomes, success_count, total_count, exit_status>>
cvars == <<call>>
vars == <<mIn, mOut, mOp, bitmap, packed, encOp,
          prog, font_stack, intervals, is_2bit, pc, data, out,
          batch, outcomes, success_count, total_count, exit_status, call>>

(***************************************************************************)
(* Bounds of the model                                                     *)
(***************************************************************************)
\* code points of the model are 0..MaxCP
MaxCP == 3
\* longest interval list handed to merge_intervals in SpecIntervals
MaxLen == 3
\* number of intervals requested on top of the built-in ones
MaxExtra == 1
\* bitmaps of SpecEnc are 0..MaxW wide and 0..MaxH high
MaxW == 5
MaxH == 4
\* bitmaps of at most MaxExhaustive pixels take every combination of samples
MaxExhaustive == 2

CodePoints == 0..MaxCP
Interval == {<<a, b>> \in CodePoints \X CodePoints : a <= b}

RECURSIVE SeqsUpTo(_, _)
SeqsUpTo(S, n) ==
    IF n = 0 THEN {<<>>}
    ELSE LET shorter == SeqsUpTo(S, n - 1)
         IN shorter \cup {Append(s, x) : s \in {t \in shorter : Len(t) = n - 1}, x \in S}

\* Python's None
None == "None"

(***************************************************************************)
(* Python integer helpers                                                  *)
(***************************************************************************)
max(a, b) == IF a >= b THEN a ELSE b
min(a, b) == IF a <= b THEN a ELSE b

RECURSIVE Pow2(_)
Pow2(n) == IF n = 0 THEN 1 ELSE 2 * Pow2(n - 1)

\* a << n and a >> n
Shl(a, n) == a * Pow2(n)
Shr(a, n) == a \div Pow2(n)

\* a & b for a mask b >= 0 (a may be negative: two's complement, as in Python)
RECURSIVE BitAnd(_, _)
BitAnd(a, b) ==
    IF b = 0 THEN 0
    ELSE (a % 2) * (b % 2) + 2 * BitAnd(a \div 2, b \div 2)

\* a | b for a, b >= 0
RECURSIVE BitOr(_, _)
BitOr(a, b) ==
    IF a = 0 THEN b
    ELSE IF b = 0 THEN a
    ELSE max(a % 2, b % 2) + 2 * BitOr(a \div 2, b \div 2)

(***************************************************************************)
(* scripts/fontconvert.py : intervals                                      *)
(***************************************************************************)
\* tuple comparison used by sorted() on (start, end) pairs
TupleLess(a, b) == a[1] < b[1] \/ (a[1] = b[1] /\ a[2] < b[2])

RECURSIVE InsertSorted(_, _)
InsertSorted(x, s) ==
    IF s = <<>> THEN <<x>>
    ELSE IF TupleLess(x, s[1]) THEN <<x>> \o s
    ELSE <<s[1]>> \o InsertSorted(x, Tail(s))

RECURSIVE sorted(_)
sorted(s) == IF s = <<>> THEN <<>> ELSE InsertSorted(s[1], sorted(Tail(s)))

\* the loop body of merge_intervals on the remaining sorted intervals, with the
\* adjacency test dropped (i_start <= merged[-1][1])
RECURSIVE merge_loop_noadj(_, _)
merge_loop_noadj(rest, merged) ==
    IF rest = <<>> THEN merged
    ELSE LET i_start == rest[1][1]
             i_end == rest[1][2]
             n == Len(merged)
         IN IF i_start <= merged[n][2]
            THEN merge_loop_noadj(Tail(rest), [merged EXCEPT ![n][2] = max(@, i_end)])
            ELSE merge_loop_noadj(Tail(rest), Append(merged, <<i_start, i_end>>))

\* a merge whose combined end is the end of the later interval
RECURSIVE merge_loop_lastend(_, _)
merge_loop_lastend(rest, merged) ==
    IF rest = <<>> THEN merged
    ELSE LET i_start == rest[1][1]
             i_end == rest[1][2]
             n == Len(merged)
         IN IF i_start <= merged[n][2] + 1
            THEN merge_loop_lastend(Tail(rest), [merged EXCEPT ![n][2] = i_end])
            ELSE merge_loop_lastend(Tail(rest), Append(merged, <<i_start, i_end>>))

\* a merge that stops after the first pair it has combined
RECURSIVE merge_loop_once(_, _)
merge_loop_once(rest, merged) ==
    IF rest = <<>> THEN merged
    ELSE LET i_start == rest[1][1]
             i_end == rest[1][2]
             n == Len(merged)
         IN IF i_start <= merged[n][2] + 1
            THEN [merged EXCEPT ![n][2] = max(@, i_end)] \o Tail(rest)
            ELSE merge_loop_once(Tail(rest), Append(merged, <<i_start, i_end>>))

\* for i_start, i_end in sorted_intervals[1:]
RECURSIVE merge_loop(_, _)
merge_loop(rest, merged) ==
    IF rest = <<>> THEN merged
    ELSE LET i_start == rest[1][1]
             i_end == rest[1][2]
             n == Len(merged)
         IN IF i_start <= merged[n][2] + 1
            THEN merge_loop(Tail(rest), [merged EXCEPT ![n][2] = max(@, i_end)])
            ELSE merge_loop(Tail(rest), Append(merged, <<i_start, i_end>>))

merge_intervals(ivs) ==
    IF ivs = <<>> THEN <<>>
    ELSE LET sorted_intervals == sorted(ivs)
         IN merge_loop(Tail(sorted_intervals), <<sorted_intervals[1]>>)

\* sorted ascending by start, pairwise non-overlapping and non-adjacent
MergeClosed(ivs) ==
    \A k \in 1..(Len(ivs) - 1) : ivs[k + 1][1] > ivs[k][2] + 1

Covers(ivs) == UNION {ivs[k][1]..ivs[k][2] : k \in 1..Len(ivs)}

(***************************************************************************)
(* Python's "for i in range(lo, hi + 1): state = step(state, i)".  The      *)
(* range is walked in ascending order; it is split in halves, the first    *)
(* half evaluated before the second, only to keep the evaluation shallow.  *)
(***************************************************************************)
RECURSIVE ForRange(_, _, _, _)
ForRange(step(_, _), state, lo, hi) ==
    IF lo > hi THEN state
    ELSE IF lo = hi THEN step(state, lo)
    ELSE LET mid == (lo + hi) \div 2
             first == ForRange(step, state, lo, mid)
         IN IF first = first THEN ForRange(step, first, mid + 1, hi) ELSE first

(***************************************************************************)
(* scripts/fontconvert.py : bit-depth encoders                             *)
(* A bitmap is [width, rows, buffer]: buffer holds width * rows samples of *)
(* 0..255, row-major (pitch = width); buffer[i + 1] is Python's buffer[i]. *)
(* The nested loops "for y ... for x ..." are walked by the pixel number   *)
(* k = y * width + x, with y = k \div width and x = k % width.             *)
(***************************************************************************)
\* the body of "for i, v in enumerate(bitmap.buffer)" on [px, pixels4g]
pixels4g_step(bm, st, i) ==
    LET v == bm.buffer[i + 1]
        x == i % bm.width
        px1 == IF x % 2 = 0 THEN Shr(v, 4) ELSE BitOr(st.px, BitAnd(v, 240))
        out1 == IF x % 2 = 0 THEN st.pixels4g ELSE Append(st.pixels4g, px1)
        px2 == IF x % 2 = 0 THEN px1 ELSE 0
        eol == x = bm.width - 1 /\ bm.width % 2 > 0
    IN [px |-> IF eol THEN 0 ELSE px2,
        pixels4g |-> IF eol THEN Append(out1, px2) ELSE out1]

\* Build 4-bit grayscale from 8-bit FreeType buffer
build_pixels4g(bm) ==
    ForRange(LAMBDA st, i : pixels4g_step(bm, st, i),
             [px |-> 0, pixels4g |-> <<>>], 0, Len(bm.buffer) - 1).pixels4g

\* a quantiser whose class boundaries sit one step too high
level_2bit_shifted(bm4) ==
    IF bm4 >= 13 THEN 3
    ELSE IF bm4 >= 9 THEN 2
    ELSE IF bm4 >= 5 THEN 1
    ELSE 0

\* 0-3 white, 4-7 light, 8-11 dark, 12-15 black
level_2bit(bm4) ==
    IF bm4 >= 12 THEN 3
    ELSE IF bm4 >= 8 THEN 2
    ELSE IF bm4 >= 4 THEN 1
    ELSE 0

\* the body of the two nested loops of render_glyph_2bit on [px, pixels]
downsample_2bit_step(bm, pixels4g, st, k) ==
    LET y == k \div bm.width
        x == k % bm.width
        pitch == (bm.width \div 2) + (bm.width % 2)
        byte == pixels4g[y * pitch + (x \div 2) + 1]
        bm4 == BitAnd(Shr(byte, (x % 2) * 4), 15)
        px1 == Shl(st.px, 2) + level_2bit(bm4)
    IN IF (y * bm.width + x) % 4 = 3
       THEN [px |-> 0, pixels |-> Append(st.pixels, px1)]
       ELSE [px |-> px1, pixels |-> st.pixels]

\* the partial byte of render_glyph_2bit dropped
render_glyph_2bit_nopad(bm) ==
    ForRange(LAMBDA st, k : downsample_2bit_step(bm, build_pixels4g(bm), st, k),
             [px |-> 0, pixels |-> <<>>], 0, bm.width * bm.rows - 1).pixels

render_glyph_2bit(bm) ==
    LET pixels4g == build_pixels4g(bm)
        looped == ForRange(LAMBDA st, k : downsample_2bit_step(bm, pixels4g, st, k),
                           [px |-> 0, pixels |-> <<>>], 0, bm.width * bm.rows - 1)
        n == bm.width * bm.rows
    IN IF n % 4 # 0
       THEN Append(looped.pixels, Shl(looped.px, (4 - (n % 4)) * 2))
       ELSE looped.pixels

\* the ink test with the threshold of the lib script (any non-zero is black)
ink_1bit_nonzero(x, byte) ==
    \/ (BitAnd(x, 1) = 0 /\ BitAnd(byte, 15) > 0)
    \/ (BitAnd(x, 1) = 1 /\ BitAnd(byte, 240) > 0)

\* the ink test of render_glyph_1bit: (x & 1) == 0 and bm & 0xE > 0, or
\* (x & 1) == 1 and bm & 0xE0 > 0
ink_1bit(x, byte) ==
    \/ (BitAnd(x, 1) = 0 /\ BitAnd(byte, 14) > 0)
    \/ (BitAnd(x, 1) = 1 /\ BitAnd(byte, 224) > 0)

\* the body of the two nested loops of render_glyph_1bit on [px, pixels]
downsample_1bit_step(bm, pixels4g, st, k) ==
    LET y == k \div bm.width
        x == k % bm.width
        pitch == (bm.width \div 2) + (bm.width % 2)
        byte == pixels4g[y * pitch + (x \div 2) + 1]
        px1 == Shl(st.px, 1) + (IF ink_1bit(x, byte) THEN 1 ELSE 0)
    IN IF (y * bm.width + x) % 8 = 7
       THEN [px |-> 0, pixels |-> Append(st.pixels, px1)]
       ELSE [px |-> px1, pixels |-> st.pixels]

render_glyph_1bit(bm) ==
    LET pixels4g == build_pixels4g(bm)
        looped == ForRange(LAMBDA st, k : downsample_1bit_step(bm, pixels4g, st, k),
                           [px |-> 0, pixels |-> <<>>], 0, bm.width * bm.rows - 1)
        n == bm.width * bm.rows
    IN IF n % 8 # 0
       THEN Append(looped.pixels, Shl(looped.px, 8 - (n % 8)))
       ELSE looped.pixels

(***************************************************************************)
(* scripts/convert_theme_fonts.py : bit-depth encoder                      *)
(***************************************************************************)
\* the body of "for y in range(rows): for x in range(0, width, 2)", walked by
\* j = the number of the packed byte (pitch bytes per row)
build_4bit_grayscale_step(bm, pixels4g, j) ==
    LET pitch == (bm.width + 1) \div 2
        y == j \div pitch
        x == 2 * (j % pitch)
        i == y * bm.width + x
        low == Shr(bm.buffer[i + 1], 4)
        high == IF x + 1 < bm.width THEN Shl(Shr(bm.buffer[i + 2], 4), 4) ELSE 0
    IN Append(pixels4g, BitOr(low, high))

build_4bit_grayscale(bm) ==
    ForRange(LAMBDA pixels4g, j : build_4bit_grayscale_step(bm, pixels4g, j),
             <<>>, 0, bm.rows * ((bm.width + 1) \div 2) - 1)

get_pixel_4bit(pixels4g, pitch, x, y) ==
    IF pitch = 0 \/ pixels4g = <<>> THEN 0
    ELSE LET idx == y * pitch + (x \div 2)
         IN IF idx >= Len(pixels4g) THEN 0
            ELSE BitAnd(Shr(pixels4g[idx + 1], (x % 2) * 4), 15)

quantize_pixel(value, two_bit) ==
    IF two_bit
    THEN IF value >= 12 THEN 3
         ELSE IF value >= 8 THEN 2
         ELSE IF value >= 4 THEN 1
         ELSE 0
    ELSE IF value >= 2 THEN 1 ELSE 0

\* the body of the two nested loops of _render_downsampled on [px, pixels]
render_downsampled_step(bm, pixels4g, two_bit, st, k) ==
    LET bits_per_pixel == IF two_bit THEN 2 ELSE 1
        pixels_per_byte == 8 \div bits_per_pixel
        pitch == (bm.width + 1) \div 2
        y == k \div bm.width
        x == k % bm.width
        px1 == BitOr(Shl(st.px, bits_per_pixel),
                     quantize_pixel(get_pixel_4bit(pixels4g, pitch, x, y), two_bit))
        pixel_idx == y * bm.width + x
    IN IF pixel_idx % pixels_per_byte = pixels_per_byte - 1
       THEN [px |-> 0, pixels |-> Append(st.pixels, px1)]
       ELSE [px |-> px1, pixels |-> st.pixels]

render_downsampled(bm, pixels4g, two_bit) ==
    LET bits_per_pixel == IF two_bit THEN 2 ELSE 1
        pixels_per_byte == 8 \div bits_per_pixel
        total_pixels == bm.width * bm.rows
        looped == ForRange(LAMBDA st, k : render_downsampled_step(bm, pixels4g, two_bit, st, k),
                           [px |-> 0, pixels |-> <<>>], 0, total_pixels - 1)
        remainder == total_pixels % pixels_per_byte
    IN IF remainder # 0
       THEN Append(looped.pixels, Shl(looped.px, (pixels_per_byte - remainder) * bits_per_pixel))
       ELSE looped.pixels

\* render_glyph(face, is_2bit) on the face's loaded bitmap
theme_render_glyph(bm, two_bit) ==
    render_downsampled(bm, build_4bit_grayscale(bm), two_bit)

(***************************************************************************)
(* The rasterization engine (FreeType), a black box to the converters.     *)
(* A face is [cov, kind]: cov is the set of code points it has a glyph     *)
(* for; kind selects what it renders.  Loading a glyph fills the face's    *)
(* glyph slot [bitmap, advance_x, bitmap_left, bitmap_top] (advance in     *)
(* 1/64 pixel), which the converters read right after load_glyph.          *)
(***************************************************************************)
FaceKinds == {"plain", "wide_advance", "wide_bitmap"}
Faces == [cov : SUBSET CodePoints, kind : FaceKinds]

RowOf(n, v) == [k \in 1..n |-> v]

\* glyphs of every face: an empty one (a space), a 3x2 and a 1x3 one with a
\* negative left bearing
PlainGlyphs == <<
    [bitmap |-> [width |-> 0, rows |-> 0, buffer |-> <<>>],
     advance_x |-> 4 * 64 + 32, bitmap_left |-> 0, bitmap_top |-> 0],
    [bitmap |-> [width |-> 3, rows |-> 2, buffer |-> <<0, 40, 255, 64, 130, 200>>],
     advance_x |-> 3 * 64 + 63, bitmap_left |-> 1, bitmap_top |-> 2],
    [bitmap |-> [width |-> 1, rows |-> 3, buffer |-> <<255, 31, 32>>],
     advance_x |-> 2 * 64, bitmap_left |-> -1, bitmap_top |-> 3] >>

\* a glyph whose advance is above 255 pixels, and one whose bitmap is wider
\* than 255 pixels (a large point size)
WideAdvanceGlyph ==
    [bitmap |-> [width |-> 2, rows |-> 1, buffer |-> <<255, 0>>],
     advance_x |-> 300 * 64, bitmap_left |-> 0, bitmap_top |-> 1]
WideBitmapGlyph ==
    [bitmap |-> [width |-> 300, rows |-> 1, buffer |-> RowOf(300, 255)],
     advance_x |-> 301 * 64 + 7, bitmap_left |-> 0, bitmap_top |-> 1]

\* the glyph slot after face.load_glyph(glyph_index, FT_LOAD_RENDER)
Rasterize(face, code_point) ==
    IF code_point % 3 = 1 /\ face.kind = "wide_advance" THEN WideAdvanceGlyph
    ELSE IF code_point % 3 = 1 /\ face.kind = "wide_bitmap" THEN WideBitmapGlyph
    ELSE PlainGlyphs[(code_point % 3) + 1]

\* face.size, in 1/64 pixel
FaceSize(face) == [height |-> 20 * 64 + 1, ascender |-> 15 * 64 + 10,
                   descender |-> -(4 * 64 + 10)]

\* face.get_char_index(code_point): 0 when the face has no glyph for it
get_char_index(face, code_point) ==
    IF code_point \in face.cov THEN code_point + 1 ELSE 0

(***************************************************************************)
(* scripts/fontconvert.py : convert_font                                   *)
(***************************************************************************)
\* a conversion that rounds toward zero
norm_trunc(val) == IF val < 0 THEN -((-val) \div 64) ELSE val \div 64

\* int(math.floor(val / (1 << 6))), int(math.ceil(val / (1 << 6)))
norm_floor(val) == val \div 64
norm_ceil(val) == -((-val) \div 64)

\* load_glyph returns the face that has the glyph, here its index in the font
\* stack; NoFace stands for the None it returns when no face has it
NoFace == 0

\* a scan that prefers the last face of the stack that has the glyph
RECURSIVE load_glyph_last(_, _, _)
load_glyph_last(stack, code_point, i) ==
    IF i > Len(stack) THEN NoFace
    ELSE IF load_glyph_last(stack, code_point, i + 1) # NoFace
    THEN load_glyph_last(stack, code_point, i + 1)
    ELSE IF get_char_index(stack[i], code_point) > 0 THEN i
    ELSE NoFace

\* for face in font_stack
RECURSIVE load_glyph_from(_, _, _)
load_glyph_from(stack, code_point, i) ==
    IF i > Len(stack) THEN NoFace
    ELSE IF get_char_index(stack[i], code_point) > 0 THEN i
    ELSE load_glyph_from(stack, code_point, i + 1)

load_glyph(stack, code_point) == load_glyph_from(stack, code_point, 1)

\* for code_point in range(i_start, i_end + 1), and the test after the loop
RECURSIVE validate_scan(_, _, _, _, _)
validate_scan(stack, i_end, code_point, start, valid_intervals) ==
    IF code_point > i_end
    THEN IF start <= i_end THEN Append(valid_intervals, <<start, i_end>>)
         ELSE valid_intervals
    ELSE IF load_glyph(stack, code_point) = NoFace
    THEN validate_scan(stack, i_end, code_point + 1, code_point + 1,
                       IF start < code_point
                       THEN Append(valid_intervals, <<start, code_point - 1>>)
                       ELSE valid_intervals)
    ELSE validate_scan(stack, i_end, code_point + 1, start, valid_intervals)

\* for i_start, i_end in intervals
RECURSIVE validate_loop(_, _, _)
validate_loop(stack, ivs, valid_intervals) ==
    IF ivs = <<>> THEN valid_intervals
    ELSE validate_loop(stack, Tail(ivs),
                       validate_scan(stack, ivs[1][2], ivs[1][1], ivs[1][1], valid_intervals))

\* a validation that keeps the intervals as they are given
validate_intervals_unfiltered(stack, ivs) == ivs

validate_intervals(stack, ivs) == validate_loop(stack, ivs, <<>>)

\* GlyphProps(...) and the packed bytes of the glyph loaded for code_point
make_glyph(face, code_point, two_bit, total_size) ==
    LET slot == Rasterize(face, code_point)
        bytes == IF two_bit THEN render_glyph_2bit(slot.bitmap)
                 ELSE render_glyph_1bit(slot.bitmap)
    IN [props |-> [width |-> min(slot.bitmap.width, 255),
                   height |-> min(slot.bitmap.rows, 255),
                   advance_x |-> min(norm_floor(slot.advance_x), 255),
                   left |-> slot.bitmap_left,
                   top |-> slot.bitmap_top,
                   data_length |-> Len(bytes),
                   data_offset |-> total_size,
                   code_point |-> code_point],
        packed |-> bytes]

\* for i_start, i_end in valid_intervals: for code_point in range(...):
\* walked by the interval number k and the code point
RECURSIVE glyph_loop(_, _, _, _, _, _, _)
glyph_loop(stack, two_bit, ivs, k, code_point, total_size, all_glyphs) ==
    IF k > Len(ivs) THEN all_glyphs
    ELSE IF code_point > ivs[k][2]
    THEN glyph_loop(stack, two_bit, ivs, k + 1,
                    IF k < Len(ivs) THEN ivs[k + 1][1] ELSE 0, total_size, all_glyphs)
    ELSE LET f == load_glyph(stack, code_point)
         IN IF f = NoFace
            THEN glyph_loop(stack, two_bit, ivs, k, code_point + 1, total_size, all_glyphs)
            ELSE LET g == make_glyph(stack[f], code_point, two_bit, total_size)
                 IN glyph_loop(stack, two_bit, ivs, k, code_point + 1,
                               total_size + Len(g.packed), Append(all_glyphs, g))

\* INTERVALS_BASE, scaled to the code points of the model: ascending, free of
\* overlaps, with two adjacent blocks (Basic Latin, Latin-1 Supplement) and
\* a block after a gap
INTERVALS_BASE == <<<<0, 0>>, <<1, 1>>, <<3, 3>>>>

\* the code point of "|", whose face gives the metrics, scaled to the code
\* points of the model: it lies in the first built-in interval (Basic Latin)
PIPE == 0

\* convert_font: [status, glyphs, intervals, metrics, is_2bit]; status is
\* "data" (the dictionary is returned), "None" (no valid interval) or
\* "raised" ("|" is in no face: face is None and face.size raises)
convert_font(stack, ivs, two_bit) ==
    LET merged_intervals == merge_intervals(ivs)
        valid_intervals == validate_intervals(stack, merged_intervals)
    IN IF valid_intervals = <<>> THEN [status |-> "None"]
       ELSE LET all_glyphs == glyph_loop(stack, two_bit, valid_intervals, 1,
                                         valid_intervals[1][1], 0, <<>>)
                f == load_glyph(stack, PIPE)
            IN IF f = NoFace THEN [status |-> "raised"]
               ELSE [status |-> "data",
                     glyphs |-> all_glyphs,
                     intervals |-> valid_intervals,
                     metrics |-> [advance_y |-> norm_ceil(FaceSize(stack[f]).height),
                                  ascender |-> norm_ceil(FaceSize(stack[f]).ascender),
                                  descender |-> norm_floor(FaceSize(stack[f]).descender)],
                     is_2bit |-> two_bit]

(***************************************************************************)
(* scripts/fontconvert.py : write_epdfont                                  *)
(* struct.pack_into and the byte stores, on a writer [buf, offset, err]:   *)
(* buf[i + 1] is Python's buf[i]; err is set when struct.error is raised   *)
(* (a value outside its format's range), which ends write_epdfont before   *)
(* the file is written.                                                    *)
(***************************************************************************)
MAGIC == 1178882117
VERSION == 1

FormatSize(fmt) ==
    CASE fmt = "I" -> 4
      [] fmt = "H" -> 2
      [] fmt = "h" -> 2
      [] fmt = "B" -> 1
      [] fmt = "byte" -> 1

\* the values struct accepts for a format ("byte" is a store of v & 0xFF)
FormatAccepts(fmt, v) ==
    CASE fmt = "I" -> v >= 0 /\ (v \div 65536) < 65536
      [] fmt = "H" -> v >= 0 /\ v < 65536
      [] fmt = "h" -> v >= -32768 /\ v < 32768
      [] fmt = "B" -> v >= 0 /\ v < 256
      [] fmt = "byte" -> TRUE

\* little-endian bytes of v in n bytes (two's complement for a negative v)
RECURSIVE LittleEndian(_, _)
LittleEndian(v, n) ==
    IF n = 0 THEN <<>> ELSE <<v % 256>> \o LittleEndian(v \div 256, n - 1)

Store(buf, offset, bytes) ==
    [i \in 1..Len(buf) |->
        IF i - 1 >= offset /\ i - 1 < offset + Len(bytes) THEN bytes[i - offset] ELSE buf[i]]

\* one struct.pack_into(fmt, buf, offset, v) or buf[offset] = v, followed by
\* offset += size; <<"skip", n>> is a bare offset += n
write_field(w, field) ==
    IF w.err THEN w
    ELSE IF field[1] = "skip" THEN [w EXCEPT !.offset = @ + field[2]]
    ELSE IF ~FormatAccepts(field[1], field[2]) THEN [w EXCEPT !.err = TRUE]
    ELSE [w EXCEPT !.buf = Store(@, w.offset,
                                 LittleEndian(IF field[1] = "byte" THEN BitAnd(field[2], 255)
                                              ELSE field[2],
                                              FormatSize(field[1]))),
                   !.offset = @ + FormatSize(field[1])]

\* the statements of a straight-line block, in order
RECURSIVE write_fields(_, _)
write_fields(w, fields) ==
    IF fields = <<>> THEN w ELSE write_fields(write_field(w, fields[1]), Tail(fields))

\* an interval table whose offsets advance by i_end - i_start only
RECURSIVE write_intervals_span(_, _, _)
write_intervals_span(w, ivs, glyph_offset) ==
    IF ivs = <<>> THEN w
    ELSE write_intervals_span(
            write_fields(w, <<<<"I", ivs[1][1]>>, <<"I", ivs[1][2]>>, <<"I", glyph_offset>>>>),
            Tail(ivs), glyph_offset + ivs[1][2] - ivs[1][1])

\* for i_start, i_end in intervals: ... glyph_offset += i_end - i_start + 1
RECURSIVE write_intervals(_, _, _)
write_intervals(w, ivs, glyph_offset) ==
    IF ivs = <<>> THEN w
    ELSE write_intervals(
            write_fields(w, <<<<"I", ivs[1][1]>>, <<"I", ivs[1][2]>>, <<"I", glyph_offset>>>>),
            Tail(ivs), glyph_offset + ivs[1][2] - ivs[1][1] + 1)

\* a glyph table of 13-byte records, without the padding byte
RECURSIVE write_glyphs_nopad(_, _)
write_glyphs_nopad(w, glyph_props) ==
    IF glyph_props = <<>> THEN w
    ELSE LET g == glyph_props[1]
         IN write_glyphs_nopad(
                write_fields(w, <<<<"byte", g.width>>, <<"byte", g.height>>,
                                  <<"byte", g.advance_x>>,
                                  <<"h", g.left>>, <<"h", g.top>>,
                                  <<"H", g.data_length>>, <<"I", g.data_offset>>>>),
                Tail(glyph_props))

\* for g in glyph_props
RECURSIVE write_glyphs(_, _)
write_glyphs(w, glyph_props) ==
    IF glyph_props = <<>> THEN w
    ELSE LET g == glyph_props[1]
         IN write_glyphs(
                write_fields(w, <<<<"byte", g.width>>, <<"byte", g.height>>,
                                  <<"byte", g.advance_x>>, <<"byte", 0>>,
                                  <<"h", g.left>>, <<"h", g.top>>,
                                  <<"H", g.data_length>>, <<"I", g.data_offset>>>>),
                Tail(glyph_props))

RECURSIVE Concat(_)
Concat(seqs) == IF seqs = <<>> THEN <<>> ELSE seqs[1] \o Concat(Tail(seqs))

\* write_epdfont: [err, bytes]; err when struct.error was raised (no file is
\* written), else bytes is what output_path.write_bytes(buf) writes
write_epdfont(d) ==
    LET glyph_props == [k \in 1..Len(d.glyphs) |-> d.glyphs[k].props]
        bitmap_data == Concat([k \in 1..Len(d.glyphs) |-> d.glyphs[k].packed])
        bitmap_size == Len(bitmap_data)
        header_size == 16
        metrics_size == 18
        intervals_size == Len(d.intervals) * 12
        glyphs_size == Len(glyph_props) * 14
        total_size == header_size + metrics_size + intervals_size + glyphs_size + bitmap_size
        w0 == [buf |-> [i \in 1..total_size |-> 0], offset |-> 0, err |-> FALSE]
        w1 == write_fields(w0, <<<<"I", MAGIC>>, <<"H", VERSION>>,
                                 <<"H", IF d.is_2bit THEN 1 ELSE 0>>, <<"skip", 8>>>>)
        w2 == write_fields(w1, <<<<"byte", d.metrics.advance_y>>, <<"byte", 0>>,
                                 <<"h", d.metrics.ascender>>, <<"h", d.metrics.descender>>,
                                 <<"I", Len(d.intervals)>>, <<"I", Len(glyph_props)>>,
                                 <<"I", bitmap_size>>>>)
        w3 == write_intervals(w2, d.intervals, 0)
        w4 == write_glyphs(w3, glyph_props)
    IN IF w4.err THEN [err |-> TRUE, bytes |-> <<>>]
       ELSE [err |-> FALSE, bytes |-> Store(w4.buf, w4.offset, bitmap_data)]

(***************************************************************************)
(* The binary format as write_epdfont documents it (see EpdFontLoader.h):  *)
(* a reader of the fixed little-endian layout                              *)
(***************************************************************************)
RECURSIVE ReadUnsigned(_, _, _)
ReadUnsigned(bytes, offset, n) ==
    IF n = 0 THEN 0 ELSE bytes[offset + 1] + 256 * ReadUnsigned(bytes, offset + 1, n - 1)

ReadInt16(bytes, offset) ==
    LET u == ReadUnsigned(bytes, offset, 2) IN IF u >= 32768 THEN u - 65536 ELSE u

read_epdfont(bytes) ==
    LET intervalCount == ReadUnsigned(bytes, 22, 4)
        glyphCount == ReadUnsigned(bytes, 26, 4)
        bitmapSize == ReadUnsigned(bytes, 30, 4)
        glyphsAt == 34 + 12 * intervalCount
        bitmapAt == glyphsAt + 14 * glyphCount
    IN [magic |-> ReadUnsigned(bytes, 0, 4),
        version |-> ReadUnsigned(bytes, 4, 2),
        flags |-> ReadUnsigned(bytes, 6, 2),
        reserved |-> SubSeq(bytes, 9, 16),
        advanceY |-> ReadUnsigned(bytes, 16, 1),
        padding |-> ReadUnsigned(bytes, 17, 1),
        ascender |-> ReadInt16(bytes, 18),
        descender |-> ReadInt16(bytes, 20),
        intervalCount |-> intervalCount,
        glyphCount |-> glyphCount,
        bitmapSize |-> bitmapSize,
        intervals |-> [k \in 1..intervalCount |->
            [first |-> ReadUnsigned(bytes, 34 + 12 * (k - 1), 4),
             last |-> ReadUnsigned(bytes, 34 + 12 * (k - 1) + 4, 4),
             offset |-> ReadUnsigned(bytes, 34 + 12 * (k - 1) + 8, 4)]],
        glyphs |-> [k \in 1..glyphCount |->
            LET at == glyphsAt + 14 * (k - 1)
            IN [width |-> ReadUnsigned(bytes, at, 1),
                height |-> ReadUnsigned(bytes, at + 1, 1),
                advanceX |-> ReadUnsigned(bytes, at + 2, 1),
                padding |-> ReadUnsigned(bytes, at + 3, 1),
                left |-> ReadInt16(bytes, at + 4),
                top |-> ReadInt16(bytes, at + 6),
                dataLength |-> ReadUnsigned(bytes, at + 8, 2),
                dataOffset |-> ReadUnsigned(bytes, at + 10, 4)]],
        bitmap |-> SubSeq(bytes, bitmapAt + 1, Len(bytes)),
        size |-> Len(bytes)]

(***************************************************************************)
(* scripts/fontconvert.py : write_header                                   *)
(* The C header as its tables: the bitmap bytes, the glyph rows (every     *)
(* field but code_point), the interval rows and the EpdFontData record.    *)
(***************************************************************************)
\* for i_start, i_end in intervals: ... offset += i_end - i_start + 1
RECURSIVE header_intervals(_, _, _)
header_intervals(ivs, offset, rows) ==
    IF ivs = <<>> THEN rows
    ELSE header_intervals(Tail(ivs), offset + ivs[1][2] - ivs[1][1] + 1,
                          Append(rows, <<ivs[1][1], ivs[1][2], offset>>))

write_header(d) ==
    LET glyph_data == Concat([k \in 1..Len(d.glyphs) |-> d.glyphs[k].packed])
        glyph_props == [k \in 1..Len(d.glyphs) |-> d.glyphs[k].props]
    IN [Bitmaps |-> glyph_data,
        Glyphs |-> [k \in 1..Len(glyph_props) |->
                      LET g == glyph_props[k]
                      IN <<g.width, g.height, g.advance_x, g.left, g.top,
                           g.data_length, g.data_offset>>],
        Intervals |-> header_intervals(d.intervals, 0, <<>>),
        intervalCount |-> Len(d.intervals),
        advanceY |-> d.metrics.advance_y,
        ascender |-> d.metrics.ascender,
        descender |-> d.metrics.descender,
        is2Bit |-> d.is_2bit]

(***************************************************************************)
(* scripts/convert_theme_fonts.py : convert_font                           *)
(***************************************************************************)
\* INTERVALS, scaled to the code points of the model.  The list is neither
\* sorted nor free of overlaps: it has a block with another one listed
\* inside it (General Punctuation and the dashes, 0x2000-0x206F and
\* 0x2010-0x203A), a block listed out of ascending order (0x0300 after
\* 0x20A0), and blocks that touch (0x007F, 0x0080)
INTERVALS == <<<<1, 3>>, <<2, 2>>, <<0, 0>>>>

theme_load_glyph(stack, code_point) == load_glyph_from(stack, code_point, 1)

RECURSIVE theme_validate_scan(_, _, _, _, _)
theme_validate_scan(stack, i_end, code_point, start, valid_intervals) ==
    IF code_point > i_end
    THEN IF start <= i_end THEN Append(valid_intervals, <<start, i_end>>)
         ELSE valid_intervals
    ELSE IF theme_load_glyph(stack, code_point) = NoFace
    THEN theme_validate_scan(stack, i_end, code_point + 1, code_point + 1,
                             IF start < code_point
                             THEN Append(valid_intervals, <<start, code_point - 1>>)
                             ELSE valid_intervals)
    ELSE theme_validate_scan(stack, i_end, code_point + 1, start, valid_intervals)

RECURSIVE theme_validate_loop(_, _, _)
theme_validate_loop(stack, ivs, valid_intervals) ==
    IF ivs = <<>> THEN valid_intervals
    ELSE theme_validate_loop(stack, Tail(ivs),
            theme_validate_scan(stack, ivs[1][2], ivs[1][1], ivs[1][1], valid_intervals))

theme_validate_intervals(stack, ivs) == theme_validate_loop(stack, ivs, <<>>)

\* GlyphProps(...) of convert_theme_fonts.py: width, height and advance_x are
\* stored as the engine gives them
theme_make_glyph(face, code_point, two_bit, total_bitmap_size) ==
    LET slot == Rasterize(face, code_point)
        pixel_data == theme_render_glyph(slot.bitmap, two_bit)
    IN [props |-> [width |-> slot.bitmap.width,
                   height |-> slot.bitmap.rows,
                   advance_x |-> norm_floor(slot.advance_x),
                   left |-> slot.bitmap_left,
                   top |-> slot.bitmap_top,
                   data_length |-> Len(pixel_data),
                   data_offset |-> total_bitmap_size,
                   code_point |-> code_point],
        packed |-> pixel_data]

RECURSIVE theme_glyph_loop(_, _, _, _, _, _, _)
theme_glyph_loop(stack, two_bit, ivs, k, code_point, total_bitmap_size, all_glyphs) ==
    IF k > Len(ivs) THEN all_glyphs
    ELSE IF code_point > ivs[k][2]
    THEN theme_glyph_loop(stack, two_bit, ivs, k + 1,
                          IF k < Len(ivs) THEN ivs[k + 1][1] ELSE 0,
                          total_bitmap_size, all_glyphs)
    ELSE LET f == theme_load_glyph(stack, code_point)
         IN IF f = NoFace
            THEN theme_glyph_loop(stack, two_bit, ivs, k, code_point + 1,
                                  total_bitmap_size, all_glyphs)
            ELSE LET g == theme_make_glyph(stack[f], code_point, two_bit, total_bitmap_size)
                 IN theme_glyph_loop(stack, two_bit, ivs, k, code_point + 1,
                                     total_bitmap_size + Len(g.packed), Append(all_glyphs, g))

\* f.write(struct.pack(...)) on a file [bytes, err]: the fields of one pack
\* are <<format, value>>; a value its format rejects raises struct.error and
\* nothing of that pack is written
file_write_pack(f, fields) ==
    IF f.err THEN f
    ELSE IF \E k \in 1..Len(fields) :
                fields[k][1] # "skip" /\ ~FormatAccepts(fields[k][1], fields[k][2])
    THEN [f EXCEPT !.err = TRUE]
    ELSE [f EXCEPT !.bytes = @ \o Concat([k \in 1..Len(fields) |->
                IF fields[k][1] = "skip" THEN [j \in 1..fields[k][2] |-> 0]
                ELSE LittleEndian(fields[k][2], FormatSize(fields[k][1]))])]

RECURSIVE theme_write_intervals(_, _, _)
theme_write_intervals(f, ivs, glyph_offset) ==
    IF ivs = <<>> THEN f
    ELSE theme_write_intervals(
            file_write_pack(f, <<<<"I", ivs[1][1]>>, <<"I", ivs[1][2]>>, <<"I", glyph_offset>>>>),
            Tail(ivs), glyph_offset + ivs[1][2] - ivs[1][1] + 1)

RECURSIVE theme_write_glyphs(_, _)
theme_write_glyphs(f, all_glyphs) ==
    IF all_glyphs = <<>> THEN f
    ELSE LET glyph == all_glyphs[1].props
         IN theme_write_glyphs(
                file_write_pack(f, <<<<"B", glyph.width>>, <<"B", glyph.height>>,
                                     <<"B", BitAnd(glyph.advance_x, 255)>>, <<"B", 0>>,
                                     <<"h", glyph.left>>, <<"h", glyph.top>>,
                                     <<"H", glyph.data_length>>, <<"I", glyph.data_offset>>>>),
                Tail(all_glyphs))

\* for _, pixel_data in all_glyphs: f.write(pixel_data)
theme_write_bitmaps(f, all_glyphs) ==
    IF f.err THEN f
    ELSE [f EXCEPT !.bytes = @ \o Concat([k \in 1..Len(all_glyphs) |-> all_glyphs[k].packed])]

\* the "with open(output_path, 'wb') as f" block: the file [bytes, err] it
\* leaves
theme_write_file(face, two_bit, ivs, all_glyphs) ==
    LET \* total_bitmap_size += len(pixel_data), for every glyph
        total_bitmap_size ==
            Len(Concat([k \in 1..Len(all_glyphs) |-> all_glyphs[k].packed]))
        advance_y == norm_ceil(FaceSize(face).height)
        ascender == norm_ceil(FaceSize(face).ascender)
        descender == norm_floor(FaceSize(face).descender)
        f0 == [bytes |-> <<>>, err |-> FALSE]
        f1 == file_write_pack(f0, <<<<"I", MAGIC>>, <<"H", VERSION>>,
                                    <<"H", IF two_bit THEN 1 ELSE 0>>, <<"skip", 8>>>>)
        f2 == file_write_pack(f1, <<<<"B", BitAnd(advance_y, 255)>>, <<"B", 0>>,
                                    <<"h", ascender>>, <<"h", descender>>,
                                    <<"I", Len(ivs)>>, <<"I", Len(all_glyphs)>>,
                                    <<"I", total_bitmap_size>>>>)
        f3 == theme_write_intervals(f2, ivs, 0)
        f4 == theme_write_glyphs(f3, all_glyphs)
    IN theme_write_bitmaps(f4, all_glyphs)

\* what convert_font leaves once the file block has ended: True is returned
\* unless an exception was caught
theme_return(ivs, all_glyphs, f) ==
    [ok |-> ~f.err, opened |-> TRUE, file |-> f.bytes,
     glyphs |-> all_glyphs, intervals |-> ivs]

\* the glyphs rendered, the file is built
theme_build(stack, two_bit, ivs, all_glyphs) ==
    theme_return(ivs, all_glyphs, theme_write_file(stack[1], two_bit, ivs, all_glyphs))

\* a conversion that goes on to build the file when no interval is left
theme_render_unchecked(stack, two_bit, ivs) ==
    theme_build(stack, two_bit, ivs,
                IF ivs = <<>> THEN <<>>
                ELSE theme_glyph_loop(stack, two_bit, ivs, 1, ivs[1][1], 0, <<>>))

\* the try block of convert_font after the validation of the intervals
theme_render(stack, two_bit, ivs) ==
    IF ivs = <<>>
    THEN [ok |-> FALSE, opened |-> FALSE, file |-> <<>>, glyphs |-> <<>>,
          intervals |-> ivs]
    ELSE theme_build(stack, two_bit, ivs,
                     theme_glyph_loop(stack, two_bit, ivs, 1, ivs[1][1], 0, <<>>))

\* the try block of convert_font, for a font file that exists and loads:
\* [ok, opened, file, glyphs, intervals]; ok is the value returned, opened
\* tells whether the output file was created, file is its bytes, glyphs and
\* intervals are the in-memory lists
theme_convert_font(stack, two_bit) ==
    theme_render(stack, two_bit, theme_validate_intervals(stack, sorted(INTERVALS)))

(***************************************************************************)
(* lib/EpdFont/scripts/fontconvert.py : the script, top to bottom          *)
(***************************************************************************)
\* the built-in intervals, scaled like INTERVALS above
lib_intervals == <<<<1, 3>>, <<2, 2>>, <<0, 0>>>>

lib_load_glyph(stack, code_point) == load_glyph_from(stack, code_point, 1)

\* for i_start, i_end in unmerged_intervals
RECURSIVE lib_merge_loop(_, _)
lib_merge_loop(rest, unvalidated_intervals) ==
    IF rest = <<>> THEN unvalidated_intervals
    ELSE LET i_start == rest[1][1]
             i_end == rest[1][2]
             n == Len(unvalidated_intervals)
         IN IF n > 0 /\ i_start + 1 <= unvalidated_intervals[n][2]
            THEN lib_merge_loop(Tail(rest),
                    [unvalidated_intervals EXCEPT ![n] = <<@[1], max(@[2], i_end)>>])
            ELSE lib_merge_loop(Tail(rest), Append(unvalidated_intervals, <<i_start, i_end>>))

RECURSIVE lib_validate_scan(_, _, _, _, _)
lib_validate_scan(stack, i_end, code_point, start, ivs) ==
    IF code_point > i_end
    THEN IF start # i_end + 1 THEN Append(ivs, <<start, i_end>>) ELSE ivs
    ELSE IF lib_load_glyph(stack, code_point) = NoFace
    THEN lib_validate_scan(stack, i_end, code_point + 1, code_point + 1,
                           IF start < code_point THEN Append(ivs, <<start, code_point - 1>>)
                           ELSE ivs)
    ELSE lib_validate_scan(stack, i_end, code_point + 1, start, ivs)

RECURSIVE lib_validate_loop(_, _, _)
lib_validate_loop(stack, unvalidated_intervals, ivs) ==
    IF unvalidated_intervals = <<>> THEN ivs
    ELSE lib_validate_loop(stack, Tail(unvalidated_intervals),
            lib_validate_scan(stack, unvalidated_intervals[1][2], unvalidated_intervals[1][1],
                              unvalidated_intervals[1][1], ivs))

\* the final intervals from the built-in and the additional ones
lib_final_intervals(stack, add_ints) ==
    LET unmerged_intervals == sorted(lib_intervals \o add_ints)
    IN lib_validate_loop(stack, lib_merge_loop(unmerged_intervals, <<>>), <<>>)

\* treat any non-zero as black
lib_ink(x, byte) ==
    \/ (BitAnd(x, 1) = 0 /\ BitAnd(byte, 15) > 0)
    \/ (BitAnd(x, 1) = 1 /\ BitAnd(byte, 240) > 0)

\* the body of the two nested loops on [px, pixels]
lib_downsample_step(bm, pixels4g, st, k) ==
    LET y == k \div bm.width
        x == k % bm.width
        pitch == (bm.width \div 2) + (bm.width % 2)
        byte == pixels4g[y * pitch + (x \div 2) + 1]
        px1 == Shl(st.px, 1) + (IF lib_ink(x, byte) THEN 1 ELSE 0)
    IN IF (y * bm.width + x) % 8 = 7
       THEN [px |-> 0, pixels |-> Append(st.pixels, px1)]
       ELSE [px |-> px1, pixels |-> st.pixels]

\* the 4-bit and the 1-bit passes of the glyph loop
lib_render(bm) ==
    LET pixels4g == ForRange(LAMBDA st, i : pixels4g_step(bm, st, i),
                             [px |-> 0, pixels4g |-> <<>>], 0, Len(bm.buffer) - 1).pixels4g
        looped == ForRange(LAMBDA st, k : lib_downsample_step(bm, pixels4g, st, k),
                           [px |-> 0, pixels |-> <<>>], 0, bm.width * bm.rows - 1)
        n == bm.width * bm.rows
    IN IF n % 8 # 0
       THEN Append(looped.pixels, Shl(looped.px, 8 - (n % 8)))
       ELSE looped.pixels

lib_make_glyph(face, code_point, total_size) ==
    LET slot == Rasterize(face, code_point)
        bytes == lib_render(slot.bitmap)
    IN [props |-> [width |-> slot.bitmap.width,
                   height |-> slot.bitmap.rows,
                   advance_x |-> norm_floor(slot.advance_x),
                   left |-> slot.bitmap_left,
                   top |-> slot.bitmap_top,
                   data_length |-> Len(bytes),
                   data_offset |-> total_size,
                   code_point |-> code_point],
        packed |-> bytes]

\* the glyph loop; face is never None here: every code point of a final
\* interval has passed load_glyph
RECURSIVE lib_glyph_loop(_, _, _, _, _, _)
lib_glyph_loop(stack, ivs, k, code_point, total_size, all_glyphs) ==
    IF k > Len(ivs) THEN all_glyphs
    ELSE IF code_point > ivs[k][2]
    THEN lib_glyph_loop(stack, ivs, k + 1, IF k < Len(ivs) THEN ivs[k + 1][1] ELSE 0,
                        total_size, all_glyphs)
    ELSE LET g == lib_make_glyph(stack[lib_load_glyph(stack, code_point)], code_point,
                                 total_size)
         IN lib_glyph_loop(stack, ivs, k, code_point + 1,
                           total_size + Len(g.packed), Append(all_glyphs, g))

\* for i_start, i_end in intervals: print ...; offset += i_end - i_start + 1
RECURSIVE lib_print_intervals(_, _, _)
lib_print_intervals(ivs, offset, rows) ==
    IF ivs = <<>> THEN rows
    ELSE lib_print_intervals(Tail(ivs), offset + ivs[1][2] - ivs[1][1] + 1,
                             Append(rows, <<ivs[1][1], ivs[1][2], offset>>))

\* the tables printed; the EpdFontData record is cut short (raised, its
\* metrics never printed) when "|" is in no face
lib_print(stack, ivs, all_glyphs) ==
    LET f == lib_load_glyph(stack, PIPE)
        size == FaceSize(stack[IF f = NoFace THEN 1 ELSE f])
    IN [Bitmaps |-> Concat([k \in 1..Len(all_glyphs) |-> all_glyphs[k].packed]),
        Glyphs |-> [k \in 1..Len(all_glyphs) |->
                      LET g == all_glyphs[k].props
                      IN <<g.width, g.height, g.advance_x, g.left, g.top,
                           g.data_length, g.data_offset>>],
        Intervals |-> lib_print_intervals(ivs, 0, <<>>),
        intervalCount |-> Len(ivs),
        raised |-> f = NoFace,
        advanceY |-> IF f = NoFace THEN 0 ELSE norm_ceil(size.height),
        ascender |-> IF f = NoFace THEN 0 ELSE norm_ceil(size.ascender),
        descender |-> IF f = NoFace THEN 0 ELSE norm_floor(size.descender)]

(***************************************************************************)
(* SpecIntervals: merge_intervals on every list of at most MaxLen          *)
(* well-formed intervals over the code points                              *)
(***************************************************************************)
\* nothing converted yet, nothing written yet
NoData == [status |-> "none"]
NoOutput == [kind |-> "none"]

IdleEnc == bitmap = None /\ packed = None /\ encOp = "idle"
IdlePipe ==
    /\ prog = None /\ font_stack = <<>> /\ intervals = <<>> /\ is_2bit = FALSE
    /\ pc = "idle" /\ data = NoData /\ out = NoOutput
IdleIntervals == mIn = <<>> /\ mOut = <<>> /\ mOp = "idle"
\* exit_status of a process that has not ended
Running == -1
IdleBatch ==
    /\ batch = <<>> /\ outcomes = <<>> /\ success_count = 0 /\ total_count = 0
    /\ exit_status = Running
IdleCall == call = [fn |-> "idle"]

InitIntervals ==
    /\ mIn \in SeqsUpTo(Interval, MaxLen)
    /\ mOut = <<>>
    /\ mOp = "input"
    /\ IdleEnc
    /\ IdlePipe
    /\ IdleBatch
    /\ IdleCall

\* merged = merge_intervals(intervals)
Merge ==
    /\ mOp = "input"
    /\ mOut' = merge_intervals(mIn)
    /\ mOp' = "merged"
    /\ UNCHANGED <<mIn, evars, pvars, bvars, cvars>>

\* merge_intervals applied to its own result
MergeAgain ==
    /\ mOp = "merged"
    /\ mOut' = merge_intervals(mOut)
    /\ mOp' = "remerged"
    /\ UNCHANGED <<mIn, evars, pvars, bvars, cvars>>

NextIntervals == Merge \/ MergeAgain

SpecIntervals == InitIntervals /\ [][NextIntervals]_vars

\* C1: the list merge_intervals returns is sorted ascending by start, pairwise
\* non-overlapping and non-adjacent (b.first > a.last + 1 for consecutive a, b),
\* and an empty input yields an empty output.
C1_MergeOutputClosed ==
    mOp = "merged" =>
        /\ MergeClosed(mOut)
        /\ (mIn = <<>> => mOut = <<>>)

\* an unsorted input with an adjacent and an overlapping pair has been merged
C1_Witness ==
    /\ mOp = "merged"
    /\ mIn = <<<<3, 3>>, <<0, 1>>, <<1, 2>>>>
    /\ mOut = <<<<0, 3>>>>

(***************************************************************************)
(* SpecEnc: the encoders applied to bounded bitmaps                        *)
(***************************************************************************)
\* 8-bit samples on both sides of every threshold of the reduced value v >> 4
Samples == <<0, 15, 16, 31, 32, 63, 64, 127, 128, 191, 192, 255>>

\* buffers of n samples: all of them for a small n, else the samples laid out
\* with stride a from start b
Buffers(n) ==
    IF n <= MaxExhaustive
    THEN [1..n -> {Samples[j] : j \in 1..Len(Samples)}]
    ELSE {[k \in 1..n |-> Samples[((a * k + b) % Len(Samples)) + 1]] :
            a \in 0..(Len(Samples) - 1), b \in 0..(Len(Samples) - 1)}

\* the 9x8 bitmap of the 1-bit length example, besides the bounded ones
Dims == ((0..MaxW) \X (0..MaxH)) \cup {<<9, 8>>}

Bitmaps ==
    UNION {{[width |-> d[1], rows |-> d[2], buffer |-> b] : b \in Buffers(d[1] * d[2])} :
            d \in Dims}

InitEnc ==
    /\ bitmap \in Bitmaps
    /\ packed = None
    /\ encOp = "input"
    /\ IdleIntervals
    /\ IdlePipe
    /\ IdleBatch
    /\ IdleCall

\* packed = render_glyph_2bit(bitmap)
Render2bit ==
    /\ encOp = "input"
    /\ packed' = render_glyph_2bit(bitmap)
    /\ encOp' = "render_glyph_2bit"
    /\ UNCHANGED <<bitmap, ivars, pvars, bvars, cvars>>

\* packed = render_glyph_1bit(bitmap)
Render1bit ==
    /\ encOp = "input"
    /\ packed' = render_glyph_1bit(bitmap)
    /\ encOp' = "render_glyph_1bit"
    /\ UNCHANGED <<bitmap, ivars, pvars, bvars, cvars>>

\* pixel_data = render_glyph(face, is_2bit) of convert_theme_fonts.py
ThemeRender ==
    /\ encOp = "input"
    /\ \E two_bit \in BOOLEAN :
        /\ packed' = theme_render_glyph(bitmap, two_bit)
        /\ encOp' = IF two_bit THEN "theme_2bit" ELSE "theme_1bit"
    /\ UNCHANGED <<bitmap, ivars, pvars, bvars, cvars>>

NextEnc == Render2bit \/ Render1bit \/ ThemeRender

SpecEnc == InitEnc /\ [][NextEnc]_vars

CeilDiv(a, b) == (a + b - 1) \div b

Encoded == encOp \in {"render_glyph_2bit", "render_glyph_1bit", "theme_2bit", "theme_1bit"}
Encoded2bit == encOp \in {"render_glyph_2bit", "theme_2bit"}
Encoded1bit == encOp \in {"render_glyph_1bit", "theme_1bit"}
NPixels == bitmap.width * bitmap.rows

\* C5: render_glyph_1bit returns exactly ceil(w*h/8) bytes, render_glyph_2bit
\* exactly ceil(w*h*2/8) bytes, and so does _render_downsampled in either mode;
\* with w = 0 or h = 0 the result is the empty byte sequence.
C5_PackedLength ==
    Encoded =>
        /\ Len(packed) = CeilDiv(NPixels * (IF Encoded2bit THEN 2 ELSE 1), 8)
        /\ (bitmap.width = 0 \/ bitmap.rows = 0) => packed = <<>>
        /\ \A j \in 1..Len(packed) : packed[j] \in 0..255

\* the 9x8 bitmap in 1-bit mode gives 9 bytes
C5_Witness ==
    /\ encOp = "render_glyph_1bit"
    /\ bitmap.width = 9 /\ bitmap.rows = 8
    /\ Len(packed) = 9

\* the level the claim gives an 8-bit sample in 2-bit mode
ClaimLevel(v) ==
    LET r == v \div 16
    IN IF r >= 12 THEN 3 ELSE IF r >= 8 THEN 2 ELSE IF r >= 4 THEN 1 ELSE 0

\* C6: in 2-bit mode pixel number k (row-major) with sample v has level 3, 2, 1
\* or 0 as (v >> 4) is >= 12, >= 8, >= 4 or less, the level is the bit pair
\* 7-2*(k mod 4), 6-2*(k mod 4) of output byte k div 4, and the unused low bits
\* of a final partial byte are 0.
C6_TwoBitLayout ==
    Encoded2bit =>
        /\ \A k \in 0..(NPixels - 1) :
            /\ (k \div 4) + 1 \in 1..Len(packed)
            /\ (packed[(k \div 4) + 1] \div Pow2(6 - 2 * (k % 4))) % 4
                  = ClaimLevel(bitmap.buffer[k + 1])
        /\ (NPixels % 4 # 0 => packed[Len(packed)] % Pow2(2 * (4 - (NPixels % 4))) = 0)

\* a 3x2 bitmap (a partial last byte) holding all four levels has been encoded
C6_Witness ==
    /\ encOp = "render_glyph_2bit"
    /\ bitmap.width = 3 /\ bitmap.rows = 2
    /\ {ClaimLevel(bitmap.buffer[k]) : k \in 1..6} = 0..3
    /\ Len(packed) = 2

\* C7: in 1-bit mode pixel number k (row-major) with sample v is ink exactly
\* when (v >> 4) >= 2, whatever the parity of its column; its bit is bit
\* 7-(k mod 8) of output byte k div 8, and the unused low bits of a final
\* partial byte are 0.
C7_OneBitLayout ==
    Encoded1bit =>
        /\ \A k \in 0..(NPixels - 1) :
            /\ (k \div 8) + 1 \in 1..Len(packed)
            /\ (packed[(k \div 8) + 1] \div Pow2(7 - (k % 8))) % 2
                  = (IF bitmap.buffer[k + 1] \div 16 >= 2 THEN 1 ELSE 0)
        /\ (NPixels % 8 # 0 => packed[Len(packed)] % Pow2(8 - (NPixels % 8)) = 0)

\* a 3x3 bitmap (odd width, two bytes, a partial last byte) with a sample of
\* reduced value 1 in an even and in an odd column has been encoded
C7_Witness ==
    /\ encOp = "render_glyph_1bit"
    /\ bitmap.width = 3 /\ bitmap.rows = 3
    /\ \E k1, k2 \in 0..8 :
        /\ (k1 % 3) % 2 = 0 /\ bitmap.buffer[k1 + 1] \div 16 = 1
        /\ (k2 % 3) % 2 = 1 /\ bitmap.buffer[k2 + 1] \div 16 = 1
    /\ \E k \in 0..8 : bitmap.buffer[k + 1] \div 16 >= 2
    /\ Len(packed) = 2

(***************************************************************************)
(* Spec: one conversion by each converter.                                 *)
(*   fontconvert : main of scripts/fontconvert.py with -r (one font of the *)
(*                 family): convert_font, then write_header (--header) or  *)
(*                 write_epdfont                                           *)
(*   theme       : convert_font of convert_theme_fonts.py                  *)
(*   lib         : lib/EpdFont/scripts/fontconvert.py                      *)
(* The inputs are the face (its coverage and what it renders), the         *)
(* intervals requested on top of the built-in ones (the script flags and   *)
(* --additional-intervals) and the bit depth.                              *)
(***************************************************************************)
\* the intervals requested on top of the built-in ones; both converters sort
\* the whole list, so the additional ones are taken in ascending order
Extras == {e \in SeqsUpTo(Interval, MaxExtra) : sorted(e) = e}

\* a face with an oversized glyph is converted with the built-in intervals
ExtrasFor(face) == IF face.kind = "plain" THEN Extras ELSE {<<>>}

Init ==
    /\ prog \in {"fontconvert", "theme", "lib"}
    /\ font_stack \in {<<f>> : f \in Faces}
    /\ intervals \in
         CASE prog = "fontconvert" -> {INTERVALS_BASE \o e : e \in ExtrasFor(font_stack[1])}
           [] prog = "theme" -> {INTERVALS}
           [] prog = "lib" -> {lib_intervals \o e : e \in ExtrasFor(font_stack[1])}
    /\ is_2bit \in (IF prog = "lib" THEN {FALSE} ELSE BOOLEAN)
    /\ pc = "start"
    /\ data = NoData
    /\ out = NoOutput
    /\ IdleIntervals
    /\ IdleEnc
    /\ IdleBatch
    /\ IdleCall

\* data = convert_font([font_path], size, intervals, args.is_2bit, args.weight)
ConvertFont ==
    /\ prog = "fontconvert" /\ pc = "start"
    /\ data' = convert_font(font_stack, intervals, is_2bit)
    /\ pc' = CASE data'.status = "data" -> "converted"
               [] data'.status = "None" -> "skipped"
               [] data'.status = "raised" -> "raised"
    /\ UNCHANGED <<prog, font_stack, intervals, is_2bit, out, ivars, evars, bvars, cvars>>

\* write_epdfont(output_file, data)
WriteEpdfont ==
    /\ prog = "fontconvert" /\ pc = "converted"
    /\ LET w == write_epdfont(data)
       IN /\ out' = IF w.err THEN NoOutput ELSE [kind |-> "epdfont", bytes |-> w.bytes]
          /\ pc' = IF w.err THEN "raised" ELSE "written"
    /\ UNCHANGED <<prog, font_stack, intervals, is_2bit, data, ivars, evars, bvars, cvars>>

\* write_header(output_file, header_name, data, ...)
WriteHeader ==
    /\ prog = "fontconvert" /\ pc = "converted"
    /\ out' = [kind |-> "header", tables |-> write_header(data)]
    /\ pc' = "written"
    /\ UNCHANGED <<prog, font_stack, intervals, is_2bit, data, ivars, evars, bvars, cvars>>

\* what a call of convert_font that gave r leaves behind
ThemeReturned(r) ==
    /\ data' = [status |-> "data", glyphs |-> r.glyphs, intervals |-> r.intervals]
    /\ out' = IF r.opened THEN [kind |-> "epdfont", bytes |-> r.file] ELSE NoOutput
    /\ pc' = IF r.ok THEN "returned_true" ELSE "returned_false"

\* convert_font(Path(font_path), output_file, size, args.is_2bit)
ThemeConvertFont ==
    /\ prog = "theme" /\ pc = "start"
    /\ ThemeReturned(theme_convert_font(font_stack, is_2bit))
    /\ UNCHANGED <<prog, font_stack, intervals, is_2bit, ivars, evars, bvars, cvars>>

\* the script up to its final intervals (the inline merge and validation)
LibIntervals ==
    /\ prog = "lib" /\ pc = "start"
    /\ data' = [status |-> "data", glyphs |-> <<>>,
                intervals |-> lib_final_intervals(font_stack,
                                  SubSeq(intervals, Len(lib_intervals) + 1, Len(intervals)))]
    /\ pc' = "validated"
    /\ UNCHANGED <<prog, font_stack, intervals, is_2bit, out, ivars, evars, bvars, cvars>>

\* the glyph loop of the script
LibRender ==
    /\ prog = "lib" /\ pc = "validated"
    /\ data' = [data EXCEPT !.glyphs =
                  IF data.intervals = <<>> THEN <<>>
                  ELSE lib_glyph_loop(font_stack, data.intervals, 1, data.intervals[1][1],
                                      0, <<>>)]
    /\ pc' = "rendered"
    /\ UNCHANGED <<prog, font_stack, intervals, is_2bit, out, ivars, evars, bvars, cvars>>

\* the header printed to stdout
LibPrint ==
    /\ prog = "lib" /\ pc = "rendered"
    /\ LET t == lib_print(font_stack, data.intervals, data.glyphs)
       IN /\ out' = [kind |-> "header", tables |-> t]
          /\ pc' = IF t.raised THEN "raised" ELSE "printed"
    /\ UNCHANGED <<prog, font_stack, intervals, is_2bit, data, ivars, evars, bvars, cvars>>

Next ==
    \/ ConvertFont
    \/ WriteEpdfont
    \/ WriteHeader
    \/ ThemeConvertFont
    \/ LibIntervals
    \/ LibRender
    \/ LibPrint

Spec == Init /\ [][Next]_vars

(***************************************************************************)
(* Properties of a conversion                                              *)
(***************************************************************************)
\* the concatenated bitmap blob of a glyph list
Blob(glyphs) == Concat([k \in 1..Len(glyphs) |-> glyphs[k].packed])

\* the number of code points in the intervals before interval k
RECURSIVE SizeBefore(_, _)
SizeBefore(ivs, k) ==
    IF k <= 1 THEN 0
    ELSE SizeBefore(ivs, k - 1) + (ivs[k - 1][2] - ivs[k - 1][1] + 1)

Covered(stack, c) == \E i \in 1..Len(stack) : c \in stack[i].cov

\* convert_font of scripts/fontconvert.py has returned its data
Converted == prog = "fontconvert" /\ data.status = "data"

\* C2: for every code point c of the final intervals of convert_font
\* (scripts/fontconvert.py) exactly one glyph record has code_point = c, and
\* its bytes [data_offset, data_offset + data_length) lie inside the blob.
C2_OneRecordPerCodePoint ==
    Converted =>
        \A c \in Covers(data.intervals) :
            LET recs == {k \in 1..Len(data.glyphs) : data.glyphs[k].props.code_point = c}
            IN /\ Cardinality(recs) = 1
               /\ \A k \in recs :
                    /\ data.glyphs[k].props.data_offset >= 0
                    /\ data.glyphs[k].props.data_offset + data.glyphs[k].props.data_length
                          <= Len(Blob(data.glyphs))

\* two final intervals, a glyph with bytes and, after it, an empty glyph
C2_Witness ==
    /\ Converted
    /\ Len(data.intervals) >= 2
    /\ \E k \in 1..Len(data.glyphs) : data.glyphs[k].props.data_length > 0
    /\ \E k \in 1..Len(data.glyphs) :
        data.glyphs[k].props.data_length = 0 /\ data.glyphs[k].props.data_offset > 0

\* the final interval list of each converter once it is fixed
FinalIntervals ==
    \/ Converted
    \/ (prog = "theme" /\ pc \in {"returned_true", "returned_false"})
    \/ (prog = "lib" /\ pc \in {"validated", "rendered", "printed", "raised"})

\* C3: in each of the three converters the final interval list is sorted
\* ascending, pairwise non-overlapping and non-adjacent, so that no code point
\* is emitted twice.
C3_FinalIntervalsClosed ==
    FinalIntervals =>
        /\ MergeClosed(data.intervals)
        /\ \A j, k \in 1..Len(data.glyphs) :
            data.glyphs[j].props.code_point = data.glyphs[k].props.code_point => j = k

\* validate_intervals has run: its input and its output in each converter
ValidateInput ==
    IF prog = "fontconvert" THEN merge_intervals(intervals) ELSE sorted(INTERVALS)
Validated ==
    \/ (prog = "fontconvert" /\ pc \in {"converted", "skipped", "raised", "written"})
    \/ (prog = "theme" /\ pc \in {"returned_true", "returned_false"})
ValidateOutput == IF data.status = "data" THEN data.intervals ELSE <<>>

\* C4: validate_intervals returns exactly the maximal runs of covered code
\* points inside the given intervals: every code point of an output interval
\* is covered, every covered code point of an input interval is in exactly one
\* output interval, and no output interval can be extended within its input
\* interval without taking in an uncovered code point.
C4_ValidateMaximalRuns ==
    (Validated /\ data.status # "raised") =>
        LET inp == ValidateInput
            outp == ValidateOutput
        IN /\ \A c \in Covers(outp) : Covered(font_stack, c)
           /\ \A c \in Covers(inp) :
                Covered(font_stack, c) =>
                    Cardinality({k \in 1..Len(outp) : c \in outp[k][1]..outp[k][2]}) = 1
           /\ \A k \in 1..Len(outp) :
                \E j \in 1..Len(inp) :
                    /\ inp[j][1] <= outp[k][1] /\ outp[k][2] <= inp[j][2]
                    /\ outp[k][1] = inp[j][1] \/ ~Covered(font_stack, outp[k][1] - 1)
                    /\ outp[k][2] = inp[j][2] \/ ~Covered(font_stack, outp[k][2] + 1)

\* a binary container has been written completely
BinaryWritten ==
    \/ (prog = "fontconvert" /\ pc = "written" /\ out.kind = "epdfont")
    \/ (prog = "theme" /\ pc = "returned_true")

\* C8: a reader of the fixed little-endian layout recovers, for every glyph
\* record of a written container, width, height, advanceX, left, top,
\* dataLength and dataOffset equal to the in-memory record, and for every
\* interval first, last and the glyph-array offset.
C8_RoundTrip ==
    BinaryWritten =>
        LET r == read_epdfont(out.bytes)
        IN /\ r.glyphCount = Len(data.glyphs)
           /\ r.intervalCount = Len(data.intervals)
           /\ \A k \in 1..Len(data.glyphs) :
                LET g == data.glyphs[k].props
                IN /\ r.glyphs[k].width = g.width
                   /\ r.glyphs[k].height = g.height
                   /\ r.glyphs[k].advanceX = g.advance_x
                   /\ r.glyphs[k].left = g.left
                   /\ r.glyphs[k].top = g.top
                   /\ r.glyphs[k].dataLength = g.data_length
                   /\ r.glyphs[k].dataOffset = g.data_offset
           /\ \A k \in 1..Len(data.intervals) :
                /\ r.intervals[k].first = data.intervals[k][1]
                /\ r.intervals[k].last = data.intervals[k][2]
                /\ r.intervals[k].offset = SizeBefore(data.intervals, k)

\* C9: the container written by write_epdfont has exactly
\* 16 + 18 + 12 * intervalCount + 14 * glyphCount + bitmapByteSize bytes: the
\* header at 0 (magic 0x46445045, version 1, flags bit 0 = 2-bit mode, 8 zero
\* reserved bytes), the metrics at 16, the interval table at 34, the glyph
\* table right after it and the blob last; the three counts equal the number
\* of entries and blob bytes that follow.
C9_ContainerLayout ==
    (prog = "fontconvert" /\ pc = "written" /\ out.kind = "epdfont") =>
        LET r == read_epdfont(out.bytes)
            nI == Len(data.intervals)
            nG == Len(data.glyphs)
        IN /\ Len(out.bytes) = 16 + 18 + 12 * nI + 14 * nG + Len(Blob(data.glyphs))
           /\ SubSeq(out.bytes, Len(out.bytes) - Len(Blob(data.glyphs)) + 1, Len(out.bytes))
                = Blob(data.glyphs)
           /\ SubSeq(out.bytes, 1, 4) = <<69, 80, 68, 70>>
           /\ r.version = 1
           /\ r.flags = (IF is_2bit THEN 1 ELSE 0)
           /\ r.reserved = <<0, 0, 0, 0, 0, 0, 0, 0>>
           /\ r.advanceY = data.metrics.advance_y % 256
           /\ r.padding = 0
           /\ r.ascender = data.metrics.ascender
           /\ r.descender = data.metrics.descender
           /\ r.intervalCount = nI /\ r.glyphCount = nG
           /\ r.bitmapSize = Len(Blob(data.glyphs))
           /\ \A k \in 1..nI :
                <<r.intervals[k].first, r.intervals[k].last>> = data.intervals[k]
           /\ \A k \in 1..nG :
                /\ r.glyphs[k].dataOffset = data.glyphs[k].props.data_offset
                /\ r.glyphs[k].dataLength = data.glyphs[k].props.data_length
                /\ r.glyphs[k].padding = 0
           /\ r.bitmap = Blob(data.glyphs)

\* a 2-bit container with two intervals, several glyphs and a non-empty blob
C9_Witness ==
    /\ prog = "fontconvert" /\ pc = "written" /\ out.kind = "epdfont"
    /\ is_2bit
    /\ Len(data.intervals) = 2 /\ Len(data.glyphs) >= 3
    /\ Len(Blob(data.glyphs)) > 0
    /\ Len(out.bytes) = 34 + 24 + 14 * Len(data.glyphs) + Len(Blob(data.glyphs))

\* the interval rows <<first, last, offset>> of an emitted asset
EmittedIntervals ==
    IF out.kind = "header" THEN out.tables.Intervals
    ELSE LET r == read_epdfont(out.bytes)
         IN [k \in 1..r.intervalCount |->
               <<r.intervals[k].first, r.intervals[k].last, r.intervals[k].offset>>]

\* the number of rows of the glyph table of an emitted asset
EmittedGlyphCount ==
    IF out.kind = "header" THEN Len(out.tables.Glyphs)
    ELSE read_epdfont(out.bytes).glyphCount

\* C10: in every emitted asset (header and binary) each interval's glyph-array
\* offset is the number of code points in the intervals before it, the glyph
\* record at index offset_k + (c - first_k) is the one of code point c, and
\* the glyph count is the sum of the interval sizes.
C10_GlyphArrayOffsets ==
    (prog = "fontconvert" /\ pc = "written") =>
        LET rows == EmittedIntervals
        IN /\ Len(rows) = Len(data.intervals)
           /\ \A k \in 1..Len(rows) :
                /\ rows[k][3] = SizeBefore(rows, k)
                /\ \A c \in rows[k][1]..rows[k][2] :
                    LET at == rows[k][3] + (c - rows[k][1]) + 1
                    IN /\ at \in 1..Len(data.glyphs)
                       /\ data.glyphs[at].props.code_point = c
           /\ EmittedGlyphCount = SizeBefore(rows, Len(rows) + 1)
           /\ EmittedGlyphCount = Len(data.glyphs)

\* a header and a container with a second interval that starts at a non-zero
\* glyph-array offset
C10_Witness ==
    /\ prog = "fontconvert" /\ pc = "written"
    /\ Len(EmittedIntervals) >= 2
    /\ EmittedIntervals[2][3] >= 2
    /\ out.kind = "header"

\* a conversion has ended in failure: convert_font returned None or False, or
\* an exception left the conversion path
ConversionFailed ==
    \/ (prog = "fontconvert" /\ pc \in {"skipped", "raised"})
    \/ (prog = "theme" /\ pc = "returned_false")

\* C11: when a conversion of convert_theme_fonts.convert_font or of the
\* scripts/fontconvert.py path ends in failure, no output file of that
\* conversion has been created or written.
C11_NoPartialOutput == ConversionFailed => out = NoOutput

(***************************************************************************)
(* SpecBatch: main of convert_theme_fonts.py and the -r mode of main of    *)
(* scripts/fontconvert.py (binary output) over the requested styles.       *)
(* batch is the list of requested font files, outcomes what became of the  *)
(* ones main has dealt with, exit_status is Running until the process     *)
(* ends and then its exit status.                                          *)
(***************************************************************************)
\* the number of font files of a run
MaxBatch == 2

\* the fonts of a batch: no covered code point, a regular font, a font
\* without "|", a font with a glyph wider than 255 pixels
BatchFaces ==
    { [cov |-> {}, kind |-> "plain"],
      [cov |-> {0, 1}, kind |-> "plain"],
      [cov |-> {1}, kind |-> "plain"],
      [cov |-> {0, 1}, kind |-> "wide_bitmap"] }

\* a requested font file: missing, not loadable by the engine (freetype.Face
\* raises), or a font
FontFiles ==
    { [file |-> "missing", face |-> [cov |-> {}, kind |-> "plain"]],
      [file |-> "malformed", face |-> [cov |-> {}, kind |-> "plain"]] }
    \cup { [file |-> "font", face |-> f] : f \in BatchFaces }

InitBatch ==
    /\ prog \in {"fontconvert", "theme"}
    /\ batch \in {b \in SeqsUpTo(FontFiles, MaxBatch) : Len(b) >= 1}
    /\ is_2bit \in BOOLEAN
    /\ intervals = (IF prog = "fontconvert" THEN INTERVALS_BASE ELSE INTERVALS)
    /\ font_stack = <<>> /\ pc = "main" /\ data = NoData /\ out = NoOutput
    /\ outcomes = <<>> /\ success_count = 0 /\ total_count = 0
    /\ exit_status = Running
    /\ IdleIntervals
    /\ IdleEnc
    /\ IdleCall

\* the loop body is left for the next style
Continue(outcome) ==
    /\ outcomes' = Append(outcomes, outcome)
    /\ UNCHANGED exit_status

\* an exception leaves main: the interpreter prints the traceback and exits
\* with status 1
Uncaught ==
    /\ outcomes' = Append(outcomes, "error")
    /\ exit_status' = 1

\* write_epdfont(output_file, data) has given w
FontconvertWritten(w) == IF w.err THEN Uncaught ELSE Continue("asset")

\* data = convert_font(...) has given d
FontconvertConverted(d) ==
    IF d.status = "None" THEN Continue("no_glyphs")
    ELSE IF d.status = "raised" THEN Uncaught
    ELSE FontconvertWritten(write_epdfont(d))

\* one pass of "for style_name, font_path in styles" of scripts/fontconvert.py
FontconvertMainStep ==
    /\ prog = "fontconvert" /\ exit_status = Running
    /\ Len(outcomes) < Len(batch)
    /\ IF batch[Len(outcomes) + 1].file = "missing" THEN Continue("missing")
       ELSE IF batch[Len(outcomes) + 1].file = "malformed" THEN Uncaught
       ELSE FontconvertConverted(
                convert_font(<<batch[Len(outcomes) + 1].face>>, intervals, is_2bit))
    /\ UNCHANGED <<batch, success_count, total_count, pvars, ivars, evars, cvars>>

\* main returns None after the loops; "main()" ends the process with status 0
FontconvertMainReturn ==
    /\ prog = "fontconvert" /\ exit_status = Running
    /\ Len(outcomes) = Len(batch)
    /\ exit_status' = 0
    /\ UNCHANGED <<batch, outcomes, success_count, total_count, pvars, ivars, evars, cvars>>

\* convert_font of convert_theme_fonts.py on a requested file: what became of
\* it (the exceptions are caught inside and False is returned)
theme_outcome(item, two_bit) ==
    IF item.file = "missing" THEN "missing"
    ELSE IF item.file = "malformed" THEN "error"
    ELSE IF theme_validate_intervals(<<item.face>>, sorted(INTERVALS)) = <<>> THEN "no_glyphs"
    ELSE IF theme_convert_font(<<item.face>>, two_bit).ok THEN "asset"
    ELSE "error"

\* total_count += 1; if convert_font(...): success_count += 1
ThemeCounted(outcome) ==
    /\ total_count' = total_count + 1
    /\ success_count' = IF outcome = "asset" THEN success_count + 1 ELSE success_count
    /\ outcomes' = Append(outcomes, outcome)

\* one pass of "for style_name, font_path in styles" of convert_theme_fonts.py
ThemeMainStep ==
    /\ prog = "theme" /\ exit_status = Running
    /\ Len(outcomes) < Len(batch)
    /\ ThemeCounted(theme_outcome(batch[Len(outcomes) + 1], is_2bit))
    /\ UNCHANGED <<batch, exit_status, pvars, ivars, evars, cvars>>

\* return 0 if success_count == total_count else 1; sys.exit(main())
ThemeMainReturn ==
    /\ prog = "theme" /\ exit_status = Running
    /\ Len(outcomes) = Len(batch)
    /\ exit_status' = IF success_count = total_count THEN 0 ELSE 1
    /\ UNCHANGED <<batch, outcomes, success_count, total_count, pvars, ivars, evars, cvars>>

NextBatch ==
    \/ FontconvertMainStep
    \/ FontconvertMainReturn
    \/ ThemeMainStep
    \/ ThemeMainReturn

SpecBatch == InitBatch /\ [][NextBatch]_vars

\* the process has ended
Exited == exit_status \in {0, 1}

\* C12: the exit status of the batch command is 0 only if every requested
\* conversion produced an asset, and nonzero when at least one requested
\* conversion failed (font file missing, no valid glyph, conversion error).
C12_ExitStatus ==
    Exited =>
        (exit_status = 0 <=>
            /\ Len(outcomes) = Len(batch)
            /\ \A k \in 1..Len(outcomes) : outcomes[k] = "asset")

\* C14: one conversion's failure never aborts the run: when the process has
\* ended, every requested conversion of the batch has been attempted.
C14_FailureIsolation == Exited => Len(outcomes) = Len(batch)

\* no code point of the requested intervals is covered by the font
NothingCovered ==
    \A c \in Covers(intervals) : ~Covered(font_stack, c)

\* C13: when validation leaves no covered interval, the conversion is a
\* failure and never a zero-glyph asset: convert_font returns None
\* (scripts/fontconvert.py) or False (convert_theme_fonts.py) with no glyph
\* rendered, no serializer runs, and no output with glyphCount = 0 is written.
C13_EmptyIsFailure ==
    /\ (prog = "fontconvert" /\ pc # "start" /\ NothingCovered) =>
            /\ data = [status |-> "None"]
            /\ pc = "skipped"
            /\ out = NoOutput
    /\ (prog = "theme" /\ pc # "start" /\ NothingCovered) =>
            /\ pc = "returned_false"
            /\ data.glyphs = <<>>
            /\ out = NoOutput
    /\ (prog \in {"fontconvert", "theme"} /\ out.kind = "epdfont") =>
            \* the glyphCount field of the metrics block
            /\ Len(out.bytes) >= 34
            /\ ReadUnsigned(out.bytes, 26, 4) > 0
    /\ (prog = "fontconvert" /\ out.kind = "header") => Len(out.tables.Glyphs) > 0

\* a font whose only glyph lies outside the requested intervals was given to
\* convert_font of scripts/fontconvert.py
C13_Witness ==
    /\ prog = "fontconvert" /\ pc = "skipped"
    /\ font_stack[1].cov = {2}
    /\ data = [status |-> "None"] /\ out = NoOutput

\* C15: merge_intervals neither adds nor loses coverage and combines exactly
\* the overlapping or adjacent intervals: the output covers the code points
\* the input covers, every output interval is a maximal run of them, two
\* sorted neighbours a, b become <<a.start, max(a.end, b.end)>> iff
\* b.start <= a.end + 1, merge([(0,10),(11,20)]) = [(0,20)] and
\* merge([(0,10),(12,20)]) = [(0,10),(12,20)].
C15_MergeCoverage ==
    /\ mOp = "merged" =>
        /\ Covers(mOut) = Covers(mIn)
        /\ \A k \in 1..Len(mOut) :
            /\ mOut[k][1] <= mOut[k][2]
            /\ (mOut[k][1] - 1) \notin Covers(mIn)
            /\ (mOut[k][2] + 1) \notin Covers(mIn)
            /\ \E j \in 1..Len(mIn) : mIn[j][1] = mOut[k][1]
            /\ \E j \in 1..Len(mIn) : mIn[j][2] = mOut[k][2]
        /\ (Len(mIn) = 2 /\ sorted(mIn) = mIn) =>
            mOut = IF mIn[2][1] <= mIn[1][2] + 1
                   THEN << <<mIn[1][1], max(mIn[1][2], mIn[2][2])>> >>
                   ELSE mIn
    /\ merge_intervals(<< <<0, 10>>, <<11, 20>> >>) = << <<0, 20>> >>
    /\ merge_intervals(<< <<0, 10>>, <<12, 20>> >>) = << <<0, 10>>, <<12, 20>> >>

\* an interval with a nested one and an adjacent one has been merged
C15_Witness ==
    /\ mOp = "merged"
    /\ mIn = << <<0, 2>>, <<1, 1>>, <<3, 3>> >>
    /\ mOut = << <<0, 3>> >>

\* C16: merge_intervals is idempotent: merging a merged list again leaves it
\* as it is, merge_intervals(merge_intervals(X)) = merge_intervals(X).
C16_MergeIdempotent == [][MergeAgain => mOut' = mOut]_vars

\* a list that needed merging has been merged twice
C16_Witness ==
    /\ mOp = "remerged"
    /\ mIn = << <<2, 3>>, <<0, 0>>, <<1, 1>> >>
    /\ mOut = << <<0, 3>> >>

(***************************************************************************)
(* SpecCall: single calls.  call holds the function called, its arguments, *)
(* whether it has returned (done) and what it returned or left behind.     *)
(***************************************************************************)
\* the number of faces of a font stack
MaxStack == 3

\* the faces of a stack: with no glyph, with one glyph, with every glyph
StackFaces ==
    {[cov |-> c, kind |-> "plain"] : c \in {{}, {0}, {MaxCP}, CodePoints}}

\* load_glyph(font_stack, code_point) of scripts/fontconvert.py and
\* load_glyph(code_point) of lib/EpdFont/scripts/fontconvert.py
LoadGlyphCalls ==
    [fn : {"load_glyph", "lib_load_glyph"}, stack : SeqsUpTo(StackFaces, MaxStack),
     code_point : CodePoints, done : {FALSE}, ret : {NoFace}]

\* face = load_glyph(font_stack, code_point)
LoadGlyph ==
    /\ call.fn = "load_glyph" /\ ~call.done
    /\ call' = [call EXCEPT !.done = TRUE, !.ret = load_glyph(call.stack, call.code_point)]
    /\ UNCHANGED <<ivars, evars, pvars, bvars>>

\* face = load_glyph(code_point), on the global font_stack of the lib script
LibLoadGlyph ==
    /\ call.fn = "lib_load_glyph" /\ ~call.done
    /\ call' = [call EXCEPT !.done = TRUE,
                            !.ret = lib_load_glyph(call.stack, call.code_point)]
    /\ UNCHANGED <<ivars, evars, pvars, bvars>>

\* the faces of the stack of a call that have a glyph for its code point
Hits == {i \in 1..Len(call.stack) : get_char_index(call.stack[i], call.code_point) # 0}

\* C17: load_glyph returns the lowest-index face of the stack whose glyph
\* index for the code point is nonzero, and None only when no face has one; a
\* code point covered only by the second of two fonts resolves to the second.
C17_FirstMatch ==
    (call.fn \in {"load_glyph", "lib_load_glyph"} /\ call.done) =>
        /\ (Hits = {} <=> call.ret = NoFace)
        /\ Hits # {} => (call.ret \in Hits /\ \A i \in Hits : call.ret <= i)

\* a code point that only the second and the third face cover resolved to the
\* second face
C17_Witness ==
    /\ call.fn = "load_glyph" /\ call.done
    /\ Len(call.stack) = 3
    /\ Hits = {2, 3}
    /\ call.ret = 2

\* the fixed-point values of the calls of norm_floor and norm_ceil are
\* -MaxFix..MaxFix (1/64 pixel)
MaxFix == 200

NormCalls ==
    [fn : {"norm_floor", "norm_ceil"}, val : (-MaxFix)..MaxFix, done : {FALSE}, ret : {0}]

NormFloor ==
    /\ call.fn = "norm_floor" /\ ~call.done
    /\ call' = [call EXCEPT !.done = TRUE, !.ret = norm_floor(call.val)]
    /\ UNCHANGED <<ivars, evars, pvars, bvars>>

NormCeil ==
    /\ call.fn = "norm_ceil" /\ ~call.done
    /\ call' = [call EXCEPT !.done = TRUE, !.ret = norm_ceil(call.val)]
    /\ UNCHANGED <<ivars, evars, pvars, bvars>>

\* convert_font([font_path], size, INTERVALS_BASE, False) on a font
ConvertFontCalls ==
    [fn : {"convert_font"},
     stack : {<<f>> : f \in BatchFaces \cup {[cov |-> {0, 1}, kind |-> "wide_advance"]}},
     done : {FALSE}, ret : {NoData}]

ConvertFontCall ==
    /\ call.fn = "convert_font" /\ ~call.done
    /\ call' = [call EXCEPT !.done = TRUE,
                            !.ret = convert_font(call.stack, INTERVALS_BASE, FALSE)]
    /\ UNCHANGED <<ivars, evars, pvars, bvars>>

\* q is val / 64 rounded down, and rounded up
IsFloor64(q, val) == q * 64 <= val /\ val < (q + 1) * 64
IsCeil64(q, val) == (q - 1) * 64 < val /\ val <= q * 64

\* C19: 1/64-pixel values are converted with the asymmetric policy for every
\* integer, negative ones included: norm_floor(v) * 64 <= v <
\* (norm_floor(v) + 1) * 64 and (norm_ceil(v) - 1) * 64 < v <=
\* norm_ceil(v) * 64; convert_font takes the glyph advance and the descender
\* with norm_floor, the ascender and the line height with norm_ceil.
C19_AsymmetricRounding ==
    /\ (call.fn = "norm_floor" /\ call.done) => IsFloor64(call.ret, call.val)
    /\ (call.fn = "norm_ceil" /\ call.done) => IsCeil64(call.ret, call.val)
    /\ (call.fn = "convert_font" /\ call.done /\ call.ret.status = "data") =>
        /\ IsCeil64(call.ret.metrics.advance_y, FaceSize(call.stack[1]).height)
        /\ IsCeil64(call.ret.metrics.ascender, FaceSize(call.stack[1]).ascender)
        /\ IsFloor64(call.ret.metrics.descender, FaceSize(call.stack[1]).descender)
        /\ \A k \in 1..Len(call.ret.glyphs) :
            \E q \in 0..400 :
                /\ IsFloor64(q, Rasterize(call.stack[1],
                                          call.ret.glyphs[k].props.code_point).advance_x)
                /\ call.ret.glyphs[k].props.advance_x = min(q, 255)

\* norm_floor was called on a negative value that is no multiple of 64
C19_Witness ==
    /\ call.fn = "norm_floor" /\ call.done
    /\ call.val = -65
    /\ call.ret = -2

(***************************************************************************)
(* scripts/fontconvert.py : set_variable_font_weight.  An axis name is a   *)
(* sequence of characters; a face is [err, axes, coords]: err is what      *)
(* FT_Get_MM_Var returns (nonzero for a font without variation axes), axes *)
(* the axes [name, default] of the font, coords its design coordinates     *)
(* (16.16 fixed point, the defaults when the face is loaded).              *)
(***************************************************************************)
\* the number of variation axes of a font
MaxAxes == 2

\* str.lower(), on the letters of the axis names of the model
LowerChar(c) ==
    CASE c = "W" -> "w" [] c = "E" -> "e" [] c = "I" -> "i" [] c = "G" -> "g"
      [] c = "H" -> "h" [] c = "T" -> "t" [] c = "F" -> "f" [] OTHER -> c

lower(name) == [i \in 1..Len(name) |-> LowerChar(name[i])]

\* sub in s
Contains(sub, s) ==
    \E i \in 0..(Len(s) - Len(sub)) : SubSeq(s, i + 1, i + Len(sub)) = sub

\* an axis test that compares the name as it is spelled
axis_is_weight_spelled(name) ==
    Contains(<<"w", "e", "i", "g", "h", "t">>, name) \/ Contains(<<"w", "g", "h", "t">>, name)

\* name = axis.name.decode().lower(); "weight" in name or "wght" in name
axis_is_weight(name) ==
    \/ Contains(<<"w", "e", "i", "g", "h", "t">>, lower(name))
    \/ Contains(<<"w", "g", "h", "t">>, lower(name))

\* the coordinates set_variable_font_weight leaves on the face
set_variable_font_weight(face, weight) ==
    IF face.err # 0 THEN face.coords
    ELSE [i \in 1..Len(face.axes) |->
            IF axis_is_weight(face.axes[i].name) THEN weight * 65536
            ELSE face.axes[i].default]

\* axis names: "Weight", "wght", "WGHT", "FontWEIGHT", and "Width", "slnt",
\* "wgh", which name no weight axis
WeightNames ==
    { <<"W", "e", "i", "g", "h", "t">>, <<"w", "g", "h", "t">>, <<"W", "G", "H", "T">>,
      <<"F", "o", "n", "t", "W", "E", "I", "G", "H", "T">> }
OtherNames ==
    { <<"W", "i", "d", "t", "h">>, <<"s", "l", "n", "t">>, <<"w", "g", "h">> }

\* default coordinates: 0 and 100.0
AxisDefaults == {0, 100 * 65536}

Axes == [name : WeightNames \cup OtherNames, default : AxisDefaults]

\* a static font, or a variable font with its axes at their defaults
VariableFaces ==
    {[err |-> 1, axes |-> <<>>, coords |-> <<>>]}
    \cup {[err |-> 0, axes |-> a, coords |-> [i \in 1..Len(a) |-> a[i].default]] :
            a \in {b \in SeqsUpTo(Axes, MaxAxes) : Len(b) >= 1}}

\* --weight: absent, 400, 700
Weights == {0, 400, 700}

WeightCalls ==
    [fn : {"set_variable_font_weight"}, face : VariableFaces, weight : Weights,
     done : {FALSE}, ret : {<<>>}]

\* if weight: set_variable_font_weight(face, weight); ret is the design
\* coordinates of the face afterwards
SetVariableFontWeight ==
    /\ call.fn = "set_variable_font_weight" /\ ~call.done
    /\ call' = [call EXCEPT !.done = TRUE,
                            !.ret = IF call.weight # 0
                                    THEN set_variable_font_weight(call.face, call.weight)
                                    ELSE call.face.coords]
    /\ UNCHANGED <<ivars, evars, pvars, bvars>>

InitCall ==
    /\ call \in LoadGlyphCalls \cup NormCalls \cup ConvertFontCalls \cup WeightCalls
    /\ IdleIntervals
    /\ IdleEnc
    /\ IdlePipe
    /\ IdleBatch

NextCall ==
    \/ LoadGlyph
    \/ LibLoadGlyph
    \/ NormFloor
    \/ NormCeil
    \/ ConvertFontCall
    \/ SetVariableFontWeight

SpecCall == InitCall /\ [][NextCall]_vars

\* set_variable_font_weight has been called and has returned
WeightSet ==
    call.fn = "set_variable_font_weight" /\ call.done /\ call.weight # 0

\* the coordinates after the call: the axes named after the weight are at
\* `scaled`, the others at their defaults, a font without axes is as before
WeightAxesAt(scaled) ==
    /\ Len(call.ret) = Len(call.face.axes)
    /\ \A i \in 1..Len(call.face.axes) :
        call.ret[i] = IF call.face.axes[i].name \in WeightNames THEN scaled
                      ELSE call.face.axes[i].default
    /\ call.face.err # 0 => call.ret = call.face.coords

\* C20 as stated: the design coordinate of every axis whose name
\* case-insensitively contains "weight" or "wght" is weight * 64.
C20_WeightTimes64 == WeightSet => WeightAxesAt(call.weight * 64)

\* C20: set_variable_font_weight sets the design coordinate of every axis
\* whose name case-insensitively contains "weight" or "wght" to
\* weight * 65536 (16.16 fixed point), leaves every other axis at its default
\* coordinate, and changes nothing for a font without variation axes.
C20_WeightTimes65536 == WeightSet => WeightAxesAt(call.weight * 65536)

\* weight 700 was set on a font with the axes "WGHT" and "Width"
C20_Witness ==
    /\ WeightSet
    /\ call.weight = 700
    /\ Len(call.face.axes) = 2
    /\ call.face.axes[1].name = <<"W", "G", "H", "T">>
    /\ call.face.axes[2] = [name |-> <<"W", "i", "d", "t", "h">>, default |-> 100 * 65536]
    /\ call.ret = <<700 * 65536, 100 * 65536>>

(***************************************************************************)
(* C18: widths, heights and advances above 255                             *)
(***************************************************************************)
\* the font has glyphs wider than a byte, among them the one of "|", which
\* every converter asks for
WideFont ==
    /\ font_stack[1].kind \in {"wide_advance", "wide_bitmap"}
    /\ PIPE \in font_stack[1].cov

\* C18: every glyph record the converters produce has width, height and
\* advanceX in 0..255, and a glyph whose raw width, height or advance is
\* above 255 never makes a conversion of scripts/fontconvert.py or of
\* convert_theme_fonts.py fail.
C18_OneByteMetrics ==
    /\ (prog \in {"fontconvert", "theme"} /\ out # NoOutput /\ out.kind = "epdfont"
            /\ ~ConversionFailed) =>
        \A k \in 1..read_epdfont(out.bytes).glyphCount :
            /\ read_epdfont(out.bytes).glyphs[k].width \in 0..255
            /\ read_epdfont(out.bytes).glyphs[k].height \in 0..255
            /\ read_epdfont(out.bytes).glyphs[k].advanceX \in 0..255
    /\ (prog = "fontconvert" /\ data.status = "data") =>
        \A k \in 1..Len(data.glyphs) :
            /\ data.glyphs[k].props.width \in 0..255
            /\ data.glyphs[k].props.height \in 0..255
            /\ data.glyphs[k].props.advance_x \in 0..255
    /\ (prog \in {"fontconvert", "theme"} /\ WideFont) => ~ConversionFailed

\* C18 for scripts/fontconvert.py alone
C18_FontconvertOnly == prog = "fontconvert" => C18_OneByteMetrics

(***************************************************************************)
(* C22: each glyph record against its packed data                          *)
(***************************************************************************)
\* glyph record k agrees with its own width and height, and starts where
\* record k - 1 ends
RecordConsistent(k) ==
    LET g == data.glyphs[k].props
    IN /\ g.data_length = CeilDiv(g.width * g.height * (IF is_2bit THEN 2 ELSE 1), 8)
       /\ g.data_length = Len(data.glyphs[k].packed)
       /\ g.data_offset = IF k = 1 THEN 0
                          ELSE data.glyphs[k - 1].props.data_offset
                               + data.glyphs[k - 1].props.data_length

\* C22: in the result of convert_font (scripts/fontconvert.py) every glyph
\* record has data_length = ceil(width * height * bitsPerPixel / 8) of its own
\* stored width and height, the first data_offset is 0, every next one is the
\* previous data_offset + data_length, and the last data_offset + data_length
\* is the size of the blob, also for glyphs whose raw width or height is
\* above 255.
C22_RecordConsistency ==
    Converted =>
        /\ \A k \in 1..Len(data.glyphs) : RecordConsistent(k)
        /\ LET last == data.glyphs[Len(data.glyphs)].props
           IN last.data_offset + last.data_length = Len(Blob(data.glyphs))

\* C22 for the fonts whose bitmaps are at most 255 pixels wide and high
C22_NarrowOnly == font_stack[1].kind # "wide_bitmap" => C22_RecordConsistency

(***************************************************************************)
(* C21: two runs of scripts/fontconvert.py on the same font, intervals and *)
(* arguments.  What may differ between the runs is how the script was      *)
(* started: sys.argv[0], which main joins into the cmd_line it hands to    *)
(* write_header.  call.runs holds, for every run made, argv0 and the       *)
(* output file.                                                            *)
(***************************************************************************)
\* sys.argv[0]
Argv0 == {"fontconvert.py", "./scripts/fontconvert.py"}

\* " ".join(sys.argv)
cmd_line_of(argv0, header, two_bit) ==
    <<argv0, "font", "-r", "font.ttf">>
    \o (IF header THEN <<"--header">> ELSE <<>>)
    \o (IF two_bit THEN <<"--2bit">> ELSE <<>>)

\* a header whose comment names the command line
header_text_cmd(d, font_name, cmd_line) ==
    [comment |-> <<"generated by fontconvert.py", cmd_line, font_name,
                   IF d.is_2bit THEN "2-bit" ELSE "1-bit">>,
     tables |-> write_header(d)]

\* write_header(output_path, font_name, data, cmd_line): the text written;
\* cmd_line is not used
header_text(d, font_name, cmd_line) ==
    [comment |-> <<"generated by fontconvert.py", <<>>, font_name,
                   IF d.is_2bit THEN "2-bit" ELSE "1-bit">>,
     tables |-> write_header(d)]

\* the file write_epdfont leaves
epdfont_file(w) ==
    IF w.err THEN [kind |-> "raised"] ELSE [kind |-> "epdfont", bytes |-> w.bytes]

\* the body of the -r loop of main after convert_font gave d
main_written(d, header, cmd_line) ==
    IF d.status = "None" THEN NoOutput
    ELSE IF d.status = "raised" THEN [kind |-> "raised"]
    ELSE IF header
    THEN [kind |-> "header", text |-> header_text(d, "font_regular", cmd_line)]
    ELSE epdfont_file(write_epdfont(d))

MainCalls ==
    [fn : {"main"},
     stack : {<<f>> : f \in BatchFaces \cup {[cov |-> {0, 1}, kind |-> "wide_advance"]}},
     intervals : {INTERVALS_BASE, INTERVALS_BASE \o <<<<0, 2>>>>},
     is_2bit : BOOLEAN, header : BOOLEAN, runs : {<<>>}]

\* one run of the script on the font of the call
RunMain ==
    /\ call.fn = "main" /\ Len(call.runs) < 2
    /\ \E argv0 \in Argv0 :
        call' = [call EXCEPT !.runs = Append(@,
                    [argv0 |-> argv0,
                     out |-> main_written(
                                convert_font(call.stack, call.intervals, call.is_2bit),
                                call.header,
                                cmd_line_of(argv0, call.header, call.is_2bit))])]
    /\ UNCHANGED <<ivars, evars, pvars, bvars>>

InitRuns ==
    /\ call \in MainCalls
    /\ IdleIntervals
    /\ IdleEnc
    /\ IdlePipe
    /\ IdleBatch

NextRuns == RunMain

SpecRuns == InitRuns /\ [][NextRuns]_vars

\* C21: two runs of a conversion on the same font, intervals and arguments
\* leave byte-identical binary containers and byte-identical static tables,
\* however the script was started.
C21_Determinism ==
    (call.fn = "main" /\ Len(call.runs) = 2) => call.runs[1].out = call.runs[2].out

\* two runs started in different ways have written a header with bitmap data
C21_Witness ==
    /\ call.fn = "main" /\ Len(call.runs) = 2
    /\ call.runs[1].argv0 # call.runs[2].argv0
    /\ call.runs[1].out.kind = "header"
    /\ Len(call.runs[1].out.text.tables.Bitmaps) > 0

\* two runs have written a binary container
C21_WitnessBinary ==
    /\ call.fn = "main" /\ Len(call.runs) = 2
    /\ call.runs[1].argv0 # call.runs[2].argv0
    /\ call.runs[1].out.kind = "epdfont"

====
